---- MODULE Spec2Model ----
(***************************************************************************)
(* A model of the walrus key-value server: the storage engine of db.rs     *)
(* (entries, expirations, the shutdown flag, the Notify permit and the     *)
(* background purge task) and the commands of cmd/ that run against it     *)
(* from concurrent connection handlers.                                    *)
(*                                                                         *)
(* Every critical section taken under the store mutex is one atomic step;  *)
(* whatever a function does after releasing the mutex (notify_one, the     *)
(* second Db call of RPush::execute) is a step of its own, so that other   *)
(* tasks interleave exactly where the code lets them.                      *)
(***************************************************************************)
EXTENDS Integers, Sequences, FiniteSets, TLC

(***************************************************************************)
(* Bounds of the model.                                                    *)
(***************************************************************************)
\* The clock (tokio Instant::now) runs over 0..MaxTime.
MaxTime == 2

\* Keys of the store, in the order String's Ord gives them.
KeySeq == <<"k1", "k2">>
Keys == {KeySeq[i] : i \in 1..Len(KeySeq)}
\* Connections served by a Handler task each.
Conns == {"c1", "c2"}

(***************************************************************************)
(* Option<T>: None is the empty sequence, Some(x) the one-element one.     *)
(***************************************************************************)
None == <<>>
Some(x) == <<x>>
IsSome(o) == o /= <<>>
Unwrap(o) == o[1]

(***************************************************************************)
(* db.rs Data: the payload held in the store.  Byte strings are sequences  *)
(* of byte values, Strings sequences of Unicode code points.               *)
(***************************************************************************)
DataBytes(b) == [tag |-> "Bytes", val |-> b]
DataString(s) == [tag |-> "String", val |-> s]
DataInteger(i) == [tag |-> "Integer", val |-> i]
DataArray(l) == [tag |-> "Array", val |-> l]

(***************************************************************************)
(* frame.rs Frame: the values written to the peer.                         *)
(***************************************************************************)
FrameSimple(s) == [tag |-> "Simple", val |-> s]
FrameError(s) == [tag |-> "Error", val |-> s]
FrameInteger(n) == [tag |-> "Integer", val |-> n]
FrameBulk(b) == [tag |-> "Bulk", val |-> b]
FrameNull == [tag |-> "Null"]

\* The byte strings a SET carries.
ByteValues == {<<118, 49>>}
\* The items an RPUSH carries: scalars as in client.rs rpush_test.
ItemA == DataString(<<97>>)
ItemB == DataInteger(1)
ItemLists == {<<ItemA, ItemB>>}
\* The TTLs a SET carries, in clock units.
Durations == {1, 2}
\* Option<Duration> of a SET.
Expires == {None} \cup {Some(d) : d \in Durations}

VARIABLES
    entries,      \* State.entries: key -> Option<Entry>
    expirations,  \* State.expirations: set of <<when, key>>
    shutdown,     \* State.shutdown
    permit,       \* Shared.background_task: a notify_one permit is stored
    now,          \* the clock read by Instant::now()
    reaper,       \* purge_expired_tasks: [pc, when]
    guard,        \* DbDropGuard: "alive", "notify" (flag set, notify_one due), "dropped"
    handler,      \* per connection: position of Handler::run inside a command
    last,         \* the step taken last: operation, its arguments, frame written
    request,      \* the frame Handler::run read last, and on which connection
    peer,         \* the remote end of a connection: frames still to write, closed or not
    socket,       \* bytes the peer has written and read_buf has not yet taken
    buffer,       \* Connection.buffer
    reader,       \* position of the task inside Connection::read_frame
    received,     \* what the calls of read_frame returned, in order
    listener,     \* Listener::run: its position, the semaphore, the handler tasks
    mutex         \* Shared.state's Mutex: the tasks that hold a MutexGuard

\* The byte side of a connection.
wire == <<peer, socket, buffer, reader, received>>

vars == <<entries, expirations, shutdown, permit, now, reaper, guard, handler, last,
          request, wire, listener, mutex>>

\* Entry of db.rs.
Entry(data, expires_at) == [data |-> data, expires_at |-> expires_at]

\* What `last` records of a step.
Ev(op, key, value, expire, items, reply) ==
    [op |-> op, key |-> key, value |-> value, expire |-> expire,
     items |-> items, reply |-> reply, purged |-> {}]
EvPlain(op) == Ev(op, "", <<>>, None, <<>>, None)
\* A purge pass and the keys it removed.
EvPurge(purged) == [EvPlain("purge") EXCEPT !.purged = purged]
\* The reaper leaves select!/notified(); `when` is what it was sleeping for.
EvWake(op, when) == Ev(op, "", <<>>, when, <<>>, None)

Idle == [pc |-> "idle", key |-> "", items |-> <<>>]

\* server.rs MAX_CONNECTIONS.
MAX_CONNECTIONS == 1000

\* server::run: the Listener with a Semaphore of MAX_CONNECTIONS permits,
\* about to enter the loop of Listener::run.  free counts the permits in
\* the semaphore, held says whether Listener::run owns one, tasks counts
\* the handler tasks spawned and not yet completed; sleep_time is the
\* variable of Listener::accept and failed the attempts of the current
\* accept call that failed.
Listening ==
    [pc |-> "acquire", free |-> MAX_CONNECTIONS, held |-> FALSE, tasks |-> 0,
     sleep_time |-> 1, failed |-> 0]

\* No frame has been read yet.
NoRequest == [conn |-> "", frame |-> FrameNull]

\* A connection on which nothing has been written or read.
NoTraffic ==
    /\ peer = [frames |-> <<>>, written |-> 0, state |-> "open"]
    /\ socket = <<>>
    /\ buffer = <<>>
    /\ reader = "parse"
    /\ received = <<>>

(***************************************************************************)
(* Db::new: empty store, no notification stored, purge task spawned.       *)
(***************************************************************************)
Init ==
    /\ entries = [k \in Keys |-> None]
    /\ expirations = {}
    /\ shutdown = FALSE
    /\ permit = FALSE
    /\ now = 0
    /\ reaper = [pc |-> "check", when |-> None]
    /\ guard = "alive"
    /\ handler = [c \in Conns |-> Idle]
    /\ last = EvPlain("new")
    /\ listener = Listening
    /\ mutex = {}
    /\ request = NoRequest
    /\ NoTraffic

(***************************************************************************)
(* The store: State of db.rs.                                              *)
(***************************************************************************)
\* Position of a key in String order.
KeyRank(k) == CHOOSE i \in 1..Len(KeySeq) : KeySeq[i] = k

\* First element of the BTreeSet<(Instant, String)>: least instant, ties
\* broken by the key.
First(exps) ==
    CHOOSE e \in exps : \A f \in exps :
        \/ e[1] < f[1]
        \/ (e[1] = f[1] /\ KeyRank(e[2]) <= KeyRank(f[2]))

\* State::next_expiration.
next_expiration(exps) == IF exps = {} THEN None ELSE Some(First(exps)[1])

\* Db::get: a clone of the data stored under the key, if any.
DbGet(ents, key) == IF IsSome(ents[key]) THEN Some(Unwrap(ents[key]).data) ELSE None

\* Db::set that also wakes the reaper for a deadline equal to the earliest.
SetNotifyFlagNotLater(exps, expire, clock) ==
    IF IsSome(expire)
    THEN LET when == clock + Unwrap(expire)
             next == next_expiration(exps)
         IN  IF IsSome(next) THEN when <= Unwrap(next) ELSE TRUE
    ELSE FALSE

\* Db::set that wakes the reaper only when no deadline is tracked.
SetNotifyFlagOnlyEmpty(exps, expire, clock) ==
    IsSome(expire) /\ ~IsSome(next_expiration(exps))

\* The `notify` flag Db::set computes before it inserts.
SetNotifyFlag(exps, expire, clock) ==
    IF IsSome(expire)
    THEN LET when == clock + Unwrap(expire)
             next == next_expiration(exps)
         IN  IF IsSome(next) THEN when < Unwrap(next) ELSE TRUE
    ELSE FALSE

\* Db::set that removes every member with the previous entry's instant,
\* whatever its key.
SetExpirationsByInstant(ents, exps, key, expires_at) ==
    LET prev == ents[key]
        removed == IF IsSome(prev) /\ IsSome(Unwrap(prev).expires_at)
                   THEN {e \in exps : e[1] /= Unwrap(Unwrap(prev).expires_at)}
                   ELSE exps
    IN  IF IsSome(expires_at) THEN removed \cup {<<Unwrap(expires_at), key>>} ELSE removed

\* Db::set that leaves the previous entry's member in the set.
SetExpirationsKeepPrev(ents, exps, key, expires_at) ==
    IF IsSome(expires_at) THEN exps \cup {<<Unwrap(expires_at), key>>} ELSE exps

\* The expirations set after Db::set: the previous entry's member is
\* removed, the new deadline's member is inserted.
SetExpirations(ents, exps, key, expires_at) ==
    LET prev == ents[key]
        removed == IF IsSome(prev) /\ IsSome(Unwrap(prev).expires_at)
                   THEN exps \ {<<Unwrap(Unwrap(prev).expires_at), key>>}
                   ELSE exps
    IN  IF IsSome(expires_at) THEN removed \cup {<<Unwrap(expires_at), key>>} ELSE removed

\* Db::set that refuses to replace a stored Array.
DbSetKeepArray(ents, exps, key, value, expire, clock) ==
    LET expires_at == IF IsSome(expire) THEN Some(clock + Unwrap(expire)) ELSE None
        keep == IsSome(ents[key]) /\ Unwrap(ents[key]).data.tag = "Array"
    IN  [entries |-> IF keep THEN ents
                     ELSE [ents EXCEPT ![key] = Some(Entry(value, expires_at))],
         expirations |-> IF keep THEN exps
                         ELSE SetExpirations(ents, exps, key, expires_at),
         notify |-> SetNotifyFlag(exps, expire, clock)]

\* The critical section of Db::set(key, value, expire) run at time `clock`.
DbSet(ents, exps, key, value, expire, clock) ==
    LET expires_at == IF IsSome(expire) THEN Some(clock + Unwrap(expire)) ELSE None
    IN  [entries |-> [ents EXCEPT ![key] = Some(Entry(value, expires_at))],
         expirations |-> SetExpirations(ents, exps, key, expires_at),
         notify |-> SetNotifyFlag(exps, expire, clock)]

\* The purge test with the comparison turned around.
NotDueReversed(when, clock) == when < clock

\* The purge test that also spares a deadline equal to the clock.
NotDueInclusive(when, clock) == when >= clock

\* The test of the purge loop: the first deadline is still in the future.
NotDue(when, clock) == when > clock

\* The loop of Shared::purge_expired_keys.
RECURSIVE PurgeLoop(_, _, _)
PurgeLoop(ents, exps, clock) ==
    IF exps = {}
    THEN [entries |-> ents, expirations |-> exps, when |-> None]
    ELSE LET first == First(exps)
         IN  IF NotDue(first[1], clock)
             THEN [entries |-> ents, expirations |-> exps, when |-> Some(first[1])]
             ELSE PurgeLoop([ents EXCEPT ![first[2]] = None], exps \ {first}, clock)

\* purge_expired_keys that removes the first due key only and returns the
\* deadline that follows it.
purge_first_key(ents, exps, down, clock) ==
    IF down \/ exps = {}
    THEN [entries |-> ents, expirations |-> exps, when |-> None]
    ELSE LET first == First(exps)
         IN  IF NotDue(first[1], clock)
             THEN [entries |-> ents, expirations |-> exps, when |-> Some(first[1])]
             ELSE [entries |-> [ents EXCEPT ![first[2]] = None],
                   expirations |-> exps \ {first},
                   when |-> next_expiration(exps \ {first})]

\* Shared::purge_expired_keys: nothing is purged once shutdown is set.
purge_expired_keys(ents, exps, down, clock) ==
    IF down
    THEN [entries |-> ents, expirations |-> exps, when |-> None]
    ELSE PurgeLoop(ents, exps, clock)

(***************************************************************************)
(* Commands (cmd/get.rs, cmd/set.rs, cmd/rpush.rs).                        *)
(***************************************************************************)
\* The UTF-8 encoding of one code point below U+0800.
Utf8(cp) == IF cp < 128 THEN <<cp>> ELSE <<192 + (cp \div 64), 128 + (cp % 64)>>

\* String -> Bytes (`s.into()`): the UTF-8 bytes of the string.
RECURSIVE StringIntoBytes(_)
StringIntoBytes(s) == IF s = <<>> THEN <<>> ELSE Utf8(Head(s)) \o StringIntoBytes(Tail(s))

ErrWrongKind == "ERR Operation against a key holding the wrong kind of value"

\* Get::execute that has no reply for a stored Integer.
GetResultIntegerAsNull(maybe_data) ==
    IF ~IsSome(maybe_data) THEN [ok |-> TRUE, frame |-> FrameNull]
    ELSE LET data == Unwrap(maybe_data)
         IN  CASE data.tag = "Bytes" -> [ok |-> TRUE, frame |-> FrameBulk(data.val)]
               [] data.tag = "String" -> [ok |-> TRUE, frame |-> FrameBulk(StringIntoBytes(data.val))]
               [] data.tag = "Integer" -> [ok |-> TRUE, frame |-> FrameNull]
               [] data.tag = "Array" -> [ok |-> FALSE, frame |-> FrameError(ErrWrongKind)]

\* The match of Get::execute: the frame to write, or Err for an Array.
GetResult(maybe_data) ==
    IF ~IsSome(maybe_data) THEN [ok |-> TRUE, frame |-> FrameNull]
    ELSE LET data == Unwrap(maybe_data)
         IN  CASE data.tag = "Bytes" -> [ok |-> TRUE, frame |-> FrameBulk(data.val)]
               [] data.tag = "String" -> [ok |-> TRUE, frame |-> FrameBulk(StringIntoBytes(data.val))]
               [] data.tag = "Integer" -> [ok |-> TRUE, frame |-> FrameInteger(data.val)]
               [] data.tag = "Array" -> [ok |-> FALSE, frame |-> FrameError(ErrWrongKind)]

\* Get::execute under Handler::run: the frame is written; an Err ends the
\* handler (`?` in Handler::run) and nothing is written.
CmdGet(c, key) ==
    /\ handler[c].pc = "idle"
    /\ LET res == GetResult(DbGet(entries, key))
       IN  IF res.ok
           THEN /\ handler' = handler
                /\ last' = Ev("get", key, <<>>, None, <<>>, Some(res.frame))
           ELSE /\ handler' = [handler EXCEPT ![c] = [Idle EXCEPT !.pc = "closed"]]
                /\ last' = Ev("get", key, <<>>, None, <<>>, None)
    /\ UNCHANGED <<entries, expirations, shutdown, permit, now, reaper, guard, wire, listener, mutex>>

\* Set::execute up to the release of the mutex in Db::set.  When no
\* notification is due the reply follows at once.
CmdSet(c, key, value, expire) ==
    /\ handler[c].pc = "idle"
    /\ LET r == DbSet(entries, expirations, key, DataBytes(value), expire, now)
       IN  /\ entries' = r.entries
           /\ expirations' = r.expirations
           /\ IF r.notify
              THEN /\ handler' = [handler EXCEPT ![c] = [Idle EXCEPT !.pc = "set_notify"]]
                   /\ last' = Ev("set", key, value, expire, <<>>, None)
              ELSE /\ handler' = handler
                   /\ last' = Ev("set", key, value, expire, <<>>, Some(FrameSimple("OK")))
    /\ UNCHANGED <<shutdown, permit, now, reaper, guard, wire, listener, mutex>>

\* The rest of Set::execute: notify_one after the mutex is released, then
\* the reply.
SetNotify(c) ==
    /\ handler[c].pc = "set_notify"
    /\ permit' = TRUE
    /\ handler' = [handler EXCEPT ![c] = Idle]
    /\ last' = Ev("set_notify", "", <<>>, None, <<>>, Some(FrameSimple("OK")))
    /\ UNCHANGED <<entries, expirations, shutdown, now, reaper, guard, request, wire, listener, mutex>>

\* RPush::execute that answers a type conflict with the number of items.
RPushFoundCountsItems(data, items) ==
    IF data.tag = "Array"
    THEN FrameInteger(Len(data.val \o items))
    ELSE FrameInteger(Len(items))

\* RPush::execute when db.get finds data: the items are appended to the
\* clone that db.get returned and the length of that clone is the reply.
RPushFound(data, items) ==
    IF data.tag = "Array"
    THEN FrameInteger(Len(data.val \o items))
    ELSE FrameInteger(0)

\* RPush::execute: the db.get and, when the key holds data, the reply.
CmdRPush(c, key, items) ==
    /\ handler[c].pc = "idle"
    /\ LET maybe_list == DbGet(entries, key)
       IN  IF IsSome(maybe_list)
           THEN /\ handler' = handler
                /\ last' = Ev("rpush", key, <<>>, None, items,
                              Some(RPushFound(Unwrap(maybe_list), items)))
           ELSE /\ handler' = [handler EXCEPT ![c] =
                                   [pc |-> "rpush_set", key |-> key, items |-> items]]
                /\ last' = Ev("rpush", key, <<>>, None, items, None)
    /\ UNCHANGED <<entries, expirations, shutdown, permit, now, reaper, guard, wire, listener, mutex>>

\* RPush::execute that takes the length after the data has been moved out.
RPushNewEmptied(items) ==
    [value |-> DataArray(<<>>), frame |-> FrameInteger(Len(items))]

\* RPush::execute, else branch: the Array handed to db.set and the reply,
\* the length taken before the data is moved.
RPushNew(items) ==
    [value |-> DataArray(items), frame |-> FrameInteger(Len(items))]

\* RPush::execute, else branch: db.set(key, Array(data), None), then the
\* reply with the length of the data.
RPushSet(c) ==
    /\ handler[c].pc = "rpush_set"
    /\ LET key == handler[c].key
           items == handler[c].items
           new == RPushNew(items)
           r == DbSet(entries, expirations, key, new.value, None, now)
       IN  /\ entries' = r.entries
           /\ expirations' = r.expirations
           /\ permit' = (permit \/ r.notify)
           /\ last' = Ev("rpush_set", key, <<>>, None, items, Some(new.frame))
    /\ handler' = [handler EXCEPT ![c] = Idle]
    /\ UNCHANGED <<shutdown, now, reaper, guard, request, wire, listener, mutex>>

(***************************************************************************)
(* The background task purge_expired_tasks.                                *)
(***************************************************************************)
\* `while !shared.is_shutdown()`: leave the loop or go on to purge.
ReaperCheck ==
    /\ reaper.pc = "check"
    /\ reaper' = [pc |-> IF shutdown THEN "done" ELSE "purge", when |-> None]
    /\ last' = EvPlain("reaper_check")
    /\ UNCHANGED <<entries, expirations, shutdown, permit, now, guard, handler, request, wire, listener, mutex>>

\* purge_expired_tasks that waits on notified() alone whatever the purge
\* returned.
ReaperPurgeNoTimeout ==
    /\ reaper.pc = "purge"
    /\ LET r == purge_expired_keys(entries, expirations, shutdown, now)
       IN  /\ entries' = r.entries
           /\ expirations' = r.expirations
           /\ reaper' = [pc |-> "sleep", when |-> None]
    /\ last' = EvPurge({k \in Keys : IsSome(entries[k]) /\ ~IsSome(entries'[k])})
    /\ UNCHANGED <<shutdown, permit, now, guard, handler, request, wire, listener, mutex>>

\* shared.purge_expired_keys(), then the task suspends: on select! when a
\* deadline was returned, on notified() alone otherwise.
ReaperPurge ==
    /\ reaper.pc = "purge"
    /\ LET r == purge_expired_keys(entries, expirations, shutdown, now)
       IN  /\ entries' = r.entries
           /\ expirations' = r.expirations
           /\ reaper' = [pc |-> "sleep", when |-> r.when]
    /\ last' = EvPurge({k \in Keys : IsSome(entries[k]) /\ ~IsSome(entries'[k])})
    /\ UNCHANGED <<shutdown, permit, now, guard, handler, request, wire, listener, mutex>>

\* sleep_until that completes only after the instant has gone by.
ReaperTimerLate ==
    /\ reaper.pc = "sleep"
    /\ IsSome(reaper.when)
    /\ now > Unwrap(reaper.when)
    /\ reaper' = [pc |-> "check", when |-> None]
    /\ last' = EvWake("reaper_timer", reaper.when)
    /\ UNCHANGED <<entries, expirations, shutdown, permit, now, guard, handler, request, wire, listener, mutex>>

\* select!: sleep_until(when) completes.  A stored permit stays stored.
ReaperTimer ==
    /\ reaper.pc = "sleep"
    /\ IsSome(reaper.when)
    /\ now >= Unwrap(reaper.when)
    /\ reaper' = [pc |-> "check", when |-> None]
    /\ last' = EvWake("reaper_timer", reaper.when)
    /\ UNCHANGED <<entries, expirations, shutdown, permit, now, guard, handler, request, wire, listener, mutex>>

\* background_task.notified() completes and consumes the permit.
ReaperNotified ==
    /\ reaper.pc = "sleep"
    /\ permit
    /\ permit' = FALSE
    /\ reaper' = [pc |-> "check", when |-> None]
    /\ last' = EvWake("reaper_notified", reaper.when)
    /\ UNCHANGED <<entries, expirations, shutdown, now, guard, handler, request, wire, listener, mutex>>

(***************************************************************************)
(* DbDropGuard::drop -> Db::shutdown_purge_task.                           *)
(***************************************************************************)
\* state.shutdown = true under the mutex.
ShutdownFlag ==
    /\ guard = "alive"
    /\ shutdown' = TRUE
    /\ guard' = "notify"
    /\ last' = EvPlain("shutdown")
    /\ UNCHANGED <<entries, expirations, permit, now, reaper, handler, request, wire, listener, mutex>>

\* shutdown_purge_task that sets the flag and notifies nobody.
ShutdownNoNotify ==
    /\ guard = "notify"
    /\ guard' = "dropped"
    /\ last' = EvPlain("shutdown_notify")
    /\ UNCHANGED <<entries, expirations, shutdown, permit, now, reaper, handler, request, wire, listener, mutex>>

\* notify_one after the mutex is released.
ShutdownNotify ==
    /\ guard = "notify"
    /\ permit' = TRUE
    /\ guard' = "dropped"
    /\ last' = EvPlain("shutdown_notify")
    /\ UNCHANGED <<entries, expirations, shutdown, now, reaper, handler, request, wire, listener, mutex>>

\* The clock advances.
Tick ==
    /\ now < MaxTime
    /\ now' = now + 1
    /\ last' = EvPlain("tick")
    /\ UNCHANGED <<entries, expirations, shutdown, permit, reaper, guard, handler, request, wire, listener, mutex>>

\* The commands a connection handler executes.
Commands ==
    \/ \E c \in Conns, key \in Keys : CmdGet(c, key) /\ UNCHANGED request
    \/ \E c \in Conns, key \in Keys, value \in ByteValues, expire \in Expires :
           CmdSet(c, key, value, expire) /\ UNCHANGED request
    \/ \E c \in Conns : SetNotify(c)
    \/ \E c \in Conns, key \in Keys, items \in ItemLists :
           CmdRPush(c, key, items) /\ UNCHANGED request
    \/ \E c \in Conns : RPushSet(c)

\* The steps of the background task.
Reaper ==
    \/ ReaperCheck
    \/ ReaperPurge
    \/ ReaperTimer
    \/ ReaperNotified

\* The running server: handlers, the background task and the clock.  The
\* DbDropGuard is alive throughout.
Next ==
    \/ Commands
    \/ Reaper
    \/ Tick

Spec == Init /\ [][Next]_vars

\* The tokio runtime keeps polling runnable tasks: a handler past the
\* mutex goes on to notify_one, and the background task runs whenever its
\* wait is over.  Nothing obliges the clock to advance or a timer to fire
\* first.
Fairness ==
    /\ \A c \in Conns : WF_vars(SetNotify(c))
    /\ WF_vars(ReaperCheck)
    /\ WF_vars(ReaperPurge)
    /\ WF_vars(ReaperNotified)

FairSpec == Spec /\ Fairness

\* Handlers that only set, the background task and the clock.
NextExpiry ==
    \/ \E c \in Conns, key \in Keys, value \in ByteValues, expire \in Expires :
           CmdSet(c, key, value, expire) /\ UNCHANGED request
    \/ \E c \in Conns : SetNotify(c)
    \/ Reaper
    \/ Tick

\* The scheduling of Fairness, and the timer: sleep_until(when) completes
\* once the clock has reached `when`, and the task then runs.
FairExpiry == Init /\ [][NextExpiry]_vars /\ Fairness /\ WF_vars(ReaperTimer)

(***************************************************************************)
(* Get::execute over every kind of stored Data.  Db::set takes any Data,   *)
(* so the store is drawn from the values below and GET is run against it.  *)
(***************************************************************************)
\* Integers stored are 0..MaxInt.
MaxInt == 2
\* Strings: empty, "a", U+00E9 (two bytes in UTF-8) and both.
StringValues == {<<>>, <<97>>, <<233>>, <<97, 233>>}
StoredData ==
    {DataBytes(b) : b \in ByteValues \cup {<<>>}}
        \cup {DataString(s) : s \in StringValues}
        \cup {DataInteger(i) : i \in 0..MaxInt}
        \cup {DataArray(l) : l \in ItemLists}

InitGet ==
    /\ entries \in [Keys -> {None} \cup {Some(Entry(d, None)) : d \in StoredData}]
    /\ expirations = {}
    /\ shutdown = FALSE
    /\ permit = FALSE
    /\ now = 0
    /\ reaper = [pc |-> "check", when |-> None]
    /\ guard = "alive"
    /\ handler = [c \in Conns |-> Idle]
    /\ last = EvPlain("new")
    /\ listener = Listening
    /\ mutex = {}
    /\ request = NoRequest
    /\ NoTraffic

NextGet == \E c \in Conns, key \in Keys : CmdGet(c, key) /\ UNCHANGED request

SpecGet == InitGet /\ [][NextGet]_vars

\* The server with its teardown: the guard may be dropped at any moment.
NextShutdown ==
    \/ Next
    \/ ShutdownFlag
    \/ ShutdownNotify

SpecShutdown == Init /\ [][NextShutdown]_vars

\* The teardown seen from the background task: one handler that sets keys
\* and so stores permits, the task, the clock and the drop of the guard.
NextTeardown ==
    \/ \E key \in Keys, value \in ByteValues, expire \in Expires :
           CmdSet("c1", key, value, expire) /\ UNCHANGED request
    \/ SetNotify("c1")
    \/ Reaper
    \/ Tick
    \/ ShutdownFlag
    \/ ShutdownNotify

\* The teardown under the scheduling of Fairness.  The drop of the guard
\* itself is not forced: the server may run for ever.
FairTeardown == Init /\ [][NextTeardown]_vars /\ Fairness

(***************************************************************************)
(* Text.  A String is a sequence of Unicode code points, Bytes a sequence  *)
(* of byte values.  The texts and bytes of the model stay below U+0800 and *)
(* below byte 224: UTF-8 sequences of three and four bytes do not occur.   *)
(***************************************************************************)
\* Frame::Array.
FrameArray(l) == [tag |-> "Array", val |-> l]

\* char::to_lowercase / char::to_uppercase, ASCII and Latin-1 letters.
LowerChar(cp) ==
    IF (cp >= 65 /\ cp <= 90) \/ (cp >= 192 /\ cp <= 222 /\ cp /= 215) THEN cp + 32 ELSE cp
UpperChar(cp) ==
    IF (cp >= 97 /\ cp <= 122) \/ (cp >= 224 /\ cp <= 254 /\ cp /= 247) THEN cp - 32 ELSE cp

\* str::to_lowercase that leaves the text as it came.
to_lowercase_verbatim(s) == s

\* str::to_lowercase / str::to_uppercase: char by char.
to_lowercase(s) == [i \in 1..Len(s) |-> LowerChar(s[i])]
to_uppercase(s) == [i \in 1..Len(s) |-> UpperChar(s[i])]

\* str::from_utf8: the code points of a byte string, or an error when the
\* bytes are not UTF-8 (a stray continuation byte, a lead byte without its
\* continuation, an overlong form).
RECURSIVE from_utf8(_)
from_utf8(b) ==
    IF b = <<>> THEN [ok |-> TRUE, str |-> <<>>]
    ELSE IF b[1] < 128
    THEN LET r == from_utf8(Tail(b))
         IN  [ok |-> r.ok, str |-> IF r.ok THEN <<b[1]>> \o r.str ELSE <<>>]
    ELSE IF b[1] >= 194 /\ b[1] <= 223 /\ Len(b) >= 2 /\ b[2] >= 128 /\ b[2] <= 191
    THEN LET r == from_utf8(Tail(Tail(b)))
         IN  [ok |-> r.ok,
              str |-> IF r.ok THEN <<(b[1] - 192) * 64 + (b[2] - 128)>> \o r.str ELSE <<>>]
    ELSE [ok |-> FALSE, str |-> <<>>]

\* The number of leading ASCII digits of a byte string.
RECURSIVE LeadingDigits(_)
LeadingDigits(b) ==
    IF b /= <<>> /\ b[1] >= 48 /\ b[1] <= 57 THEN 1 + LeadingDigits(Tail(b)) ELSE 0

\* The value of a string of ASCII digits.
RECURSIVE DigitsValue(_)
DigitsValue(d) ==
    IF d = <<>> THEN 0 ELSE DigitsValue(SubSeq(d, 1, Len(d) - 1)) * 10 + (d[Len(d)] - 48)

\* atoi::<u64>: the number spelled by the leading digits, None when the
\* text does not start with a digit.  The numbers of the model are far
\* below 2^64, where atoi gives None as well.
atoi(b) ==
    LET n == LeadingDigits(b)
    IN  IF n = 0 THEN None ELSE Some(DigitsValue(SubSeq(b, 1, n)))

(***************************************************************************)
(* parse.rs Parse: a cursor over the frames of a request Array.  A Parse   *)
(* is the sequence of frames not yet consumed; every next_* returns the    *)
(* value or the error, and the Parse it leaves behind.                     *)
(***************************************************************************)
ParseOk(val, rest) == [err |-> "", val |-> val, rest |-> rest]
\* ParseError::EndOfStream and ParseError::Other.
ParseErr(kind, rest) == [err |-> kind, val |-> <<>>, rest |-> rest]

\* Parse::new: only an Array frame makes a Parse.
ParseNew(frame) ==
    IF frame.tag = "Array" THEN ParseOk(<<>>, frame.val) ELSE ParseErr("Other", <<>>)

\* Parse::next that returns the element and leaves it in the iterator.
next_peek(frames) ==
    IF frames = <<>> THEN ParseErr("EndOfStream", frames)
    ELSE ParseOk(Head(frames), frames)

\* Parse::next.
next(frames) ==
    IF frames = <<>> THEN ParseErr("EndOfStream", frames)
    ELSE ParseOk(Head(frames), Tail(frames))

\* Parse::next_bytes.
next_bytes(frames) ==
    LET n == next(frames)
    IN  IF n.err /= "" THEN n
        ELSE CASE n.val.tag = "Simple" -> ParseOk(StringIntoBytes(n.val.val), n.rest)
               [] n.val.tag = "Bulk" -> ParseOk(n.val.val, n.rest)
               [] OTHER -> ParseErr("Other", n.rest)

\* Parse::next_string.
next_string(frames) ==
    LET n == next(frames)
    IN  IF n.err /= "" THEN n
        ELSE CASE n.val.tag = "Simple" -> ParseOk(n.val.val, n.rest)
               [] n.val.tag = "Bulk" ->
                      LET s == from_utf8(n.val.val)
                      IN  IF s.ok THEN ParseOk(s.str, n.rest) ELSE ParseErr("Other", n.rest)
               [] OTHER -> ParseErr("Other", n.rest)

\* Option<u64> -> Result<u64, ParseError> (`ok_or_else`).
IntOrErr(maybe_int, rest) ==
    IF IsSome(maybe_int) THEN ParseOk(Unwrap(maybe_int), rest) ELSE ParseErr("Other", rest)

\* Parse::next_int.
next_int(frames) ==
    LET n == next(frames)
    IN  IF n.err /= "" THEN n
        ELSE CASE n.val.tag = "Simple" -> IntOrErr(atoi(StringIntoBytes(n.val.val)), n.rest)
               [] n.val.tag = "Bulk" -> IntOrErr(atoi(n.val.val), n.rest)
               [] n.val.tag = "Integer" -> ParseOk(n.val.val, n.rest)
               [] OTHER -> ParseErr("Other", n.rest)

\* Frame -> Data for an RPUSH item.
ItemData(frame) ==
    CASE frame.tag = "Simple" -> Some(DataString(frame.val))
      [] frame.tag = "Bulk" -> Some(DataBytes(frame.val))
      [] frame.tag = "Integer" -> Some(DataInteger(frame.val))
      [] OTHER -> None

\* Parse::next_array: the rest of the request as a list of Data.
next_array(frames) ==
    IF \A i \in 1..Len(frames) : IsSome(ItemData(frames[i]))
    THEN ParseOk([i \in 1..Len(frames) |-> Unwrap(ItemData(frames[i]))], <<>>)
    ELSE ParseErr("Other", <<>>)

(***************************************************************************)
(* Commands parsed from a request frame (cmd/mod.rs, cmd/*.rs).            *)
(***************************************************************************)
\* Result<T, crate::Error>.
Ok(val) == [ok |-> TRUE, val |-> val]
Err(why) == [ok |-> FALSE, why |-> why]

\* The Command enum.
CommandPing(msg) == [tag |-> "Ping", msg |-> msg]
CommandSet(key, value, expire) ==
    [tag |-> "Set", key |-> key, value |-> value, expire |-> expire]
CommandGet(key) == [tag |-> "Get", key |-> key]
CommandRPush(list_key, data) == [tag |-> "RPush", list_key |-> list_key, data |-> data]
CommandUnknown(name) == [tag |-> "Unknown", name |-> name]

\* "ping", "set", "get", "rpush", "EX", "PX".
TextPing == <<112, 105, 110, 103>>
TextSet == <<115, 101, 116>>
TextGet == <<103, 101, 116>>
TextRPush == <<114, 112, 117, 115, 104>>
TextEX == <<69, 88>>
TextPX == <<80, 88>>

\* Duration::from_secs that takes the number as milliseconds.
from_secs_as_millis(secs) == secs

\* Duration::from_secs and Duration::from_millis; a Duration is a number
\* of milliseconds.
from_secs(secs) == secs * 1000
from_millis(ms) == ms

\* Set::parse_frames that stores without TTL when the integer behind the
\* option token is missing or not a number.
SetExpireOrNone(frames, key, value, unit) ==
    LET n == next_int(frames)
    IN  IF n.err /= "" THEN Ok(CommandSet(key, value, None))
        ELSE Ok(CommandSet(key, value,
                           Some(IF unit = "EX" THEN from_secs(n.val) ELSE from_millis(n.val))))

\* Set::parse_frames behind an option token: the integer, then the Duration.
SetExpire(frames, key, value, unit) ==
    LET n == next_int(frames)
    IN  IF n.err /= "" THEN Err("protocol error")
        ELSE Ok(CommandSet(key, value,
                           Some(IF unit = "EX" THEN from_secs(n.val) ELSE from_millis(n.val))))

\* Set::parse_frames.
SetParseFrames(frames) ==
    LET key == next_string(frames)
    IN  IF key.err /= "" THEN Err("protocol error")
        ELSE LET value == next_bytes(key.rest)
             IN  IF value.err /= "" THEN Err("protocol error")
                 ELSE LET opt == next_string(value.rest)
                      IN  CASE opt.err = "" /\ to_uppercase(opt.val) = TextEX ->
                                   SetExpire(opt.rest, key.val, value.val, "EX")
                            [] opt.err = "" /\ to_uppercase(opt.val) = TextPX ->
                                   SetExpire(opt.rest, key.val, value.val, "PX")
                            [] opt.err = "" /\ to_uppercase(opt.val) \notin {TextEX, TextPX} ->
                                   Err("walrus only supports expiration option for SET")
                            [] opt.err = "EndOfStream" ->
                                   Ok(CommandSet(key.val, value.val, None))
                            [] OTHER -> Err("protocol error")

\* Get::parse_frame.
GetParseFrame(frames) ==
    LET key == next_string(frames)
    IN  IF key.err /= "" THEN Err("protocol error") ELSE Ok(CommandGet(key.val))

\* Ping::parse_frames.
PingParseFrames(frames) ==
    LET msg == next_bytes(frames)
    IN  CASE msg.err = "" -> Ok(CommandPing(Some(msg.val)))
          [] msg.err = "EndOfStream" -> Ok(CommandPing(None))
          [] OTHER -> Err("protocol error")

\* RPush::parse_frames.
RPushParseFrames(frames) ==
    LET list_key == next_string(frames)
    IN  IF list_key.err /= "" THEN Err("protocol error")
        ELSE LET value == next_array(list_key.rest)
             IN  IF value.err /= "" THEN Err("protocol error")
                 ELSE Ok(CommandRPush(list_key.val, value.val))

\* Command::from_frame.
from_frame(frame) ==
    LET parse == ParseNew(frame)
    IN  IF parse.err /= "" THEN Err("protocol error; expected array")
        ELSE LET name == next_string(parse.rest)
             IN  IF name.err /= "" THEN Err("protocol error")
                 ELSE LET command_name == to_lowercase(name.val)
                      IN  CASE command_name = TextPing -> PingParseFrames(name.rest)
                            [] command_name = TextSet -> SetParseFrames(name.rest)
                            [] command_name = TextGet -> GetParseFrame(name.rest)
                            [] command_name = TextRPush -> RPushParseFrames(name.rest)
                            [] OTHER -> Ok(CommandUnknown(command_name))

(***************************************************************************)
(* The request frames a peer sends: every command under every casing of    *)
(* its name, SET with its options, and malformed requests.                 *)
(***************************************************************************)
\* The keys as a peer spells them: "k1", "k2".
KeyText == [k \in Keys |-> IF k = KeySeq[1] THEN <<107, 49>> ELSE <<107, 50>>]
KeyOf(text) == CHOOSE k \in Keys : KeyText[k] = text

\* Every letter-casing of a lower-case text.
Casings(s) ==
    {[i \in 1..Len(s) |-> IF i \in U THEN UpperChar(s[i]) ELSE s[i]] :
        U \in SUBSET (1..Len(s))}

\* "foo", "del", "nx", "v1", "hi", "2", "1", "x".
TextFoo == <<102, 111, 111>>
TextDel == <<100, 101, 108>>
TextNX == <<110, 120>>

\* A text as the element of a request: Bulk as client.rs writes it.
Bulk(s) == FrameBulk(StringIntoBytes(s))

\* The arguments each command is sent with under every casing of its name.
PlainArgs ==
    [ping |-> <<>>,
     get |-> <<Bulk(KeyText[KeySeq[1]])>>,
     set |-> <<Bulk(KeyText[KeySeq[1]]), FrameBulk(<<118, 49>>)>>,
     rpush |-> <<Bulk(KeyText[KeySeq[1]]), FrameSimple(<<97>>), FrameInteger(1)>>,
     foo |-> <<>>]

NameRequests(text, args) ==
    {FrameArray(<<Bulk(s)>> \o args) : s \in Casings(text)}
        \cup {FrameArray(<<FrameSimple(text)>> \o args)}

\* SET k2 v1 with an option token and what follows it.
SetWith(option) ==
    FrameArray(<<Bulk(TextSet), Bulk(KeyText[KeySeq[2]]), FrameBulk(<<118, 49>>)>> \o option)

SetRequests ==
    {SetWith(<<Bulk(s), FrameBulk(<<50>>)>>) : s \in Casings(to_lowercase(TextEX))}
        \cup {SetWith(<<Bulk(s), FrameBulk(<<49>>)>>) : s \in Casings(to_lowercase(TextPX))}
        \cup {SetWith(<<FrameSimple(TextEX), FrameInteger(1)>>),
              SetWith(<<FrameSimple(TextPX), FrameSimple(<<50>>)>>),
              SetWith(<<>>),
              SetWith(<<Bulk(TextNX)>>),
              SetWith(<<Bulk(TextNX), FrameBulk(<<50>>)>>),
              SetWith(<<Bulk(<<69>>), FrameBulk(<<50>>)>>),
              SetWith(<<Bulk(TextEX)>>),
              SetWith(<<Bulk(TextPX), FrameBulk(<<120>>)>>),
              SetWith(<<FrameInteger(1)>>),
              FrameArray(<<Bulk(TextSet), Bulk(KeyText[KeySeq[2]])>>),
              FrameArray(<<Bulk(TextSet), FrameBulk(<<255>>), FrameBulk(<<118, 49>>)>>)}

OtherRequests ==
    {FrameArray(<<Bulk(TextPing), FrameBulk(<<104, 105>>)>>),
     FrameArray(<<Bulk(TextPing), FrameBulk(<<>>)>>),
     FrameArray(<<Bulk(TextPing), FrameInteger(1)>>),
     FrameArray(<<Bulk(TextGet), Bulk(KeyText[KeySeq[2]])>>),
     FrameArray(<<Bulk(TextGet)>>),
     FrameArray(<<Bulk(TextGet), Bulk(KeyText[KeySeq[1]]), Bulk(KeyText[KeySeq[2]])>>),
     FrameArray(<<Bulk(TextRPush), Bulk(KeyText[KeySeq[2]]), FrameSimple(<<97>>), FrameInteger(1)>>),
     FrameArray(<<Bulk(TextDel), Bulk(KeyText[KeySeq[1]])>>),
     FrameArray(<<>>),
     FrameArray(<<FrameInteger(1)>>),
     FrameSimple(to_uppercase(TextPing)),
     FrameBulk(StringIntoBytes(TextPing)),
     FrameNull}

\* The frames of a session: each command, SET with and without a TTL and
\* with an option it does not know, an unknown command, malformed frames.
SessionFrames ==
    {FrameArray(<<Bulk(TextPing)>>),
     FrameArray(<<Bulk(to_uppercase(TextPing)), FrameBulk(<<104, 105>>)>>),
     FrameArray(<<Bulk(TextPing), FrameBulk(<<>>)>>),
     FrameArray(<<Bulk(TextGet), Bulk(KeyText[KeySeq[1]])>>),
     FrameArray(<<Bulk(TextGet), Bulk(KeyText[KeySeq[2]])>>),
     FrameArray(<<Bulk(TextSet)>> \o PlainArgs.set),
     SetWith(<<Bulk(TextEX), FrameBulk(<<50>>)>>),
     SetWith(<<Bulk(TextNX)>>),
     FrameArray(<<Bulk(TextRPush)>> \o PlainArgs.rpush),
     FrameArray(<<Bulk(to_uppercase(TextFoo))>>),
     FrameArray(<<Bulk(TextDel), Bulk(KeyText[KeySeq[1]])>>),
     FrameArray(<<>>),
     FrameSimple(to_uppercase(TextPing))}

RequestFrames ==
    NameRequests(TextPing, PlainArgs.ping)
        \cup NameRequests(TextGet, PlainArgs.get)
        \cup NameRequests(TextSet, PlainArgs.set)
        \cup NameRequests(TextRPush, PlainArgs.rpush)
        \cup NameRequests(TextFoo, PlainArgs.foo)
        \cup SetRequests
        \cup OtherRequests
        \cup SessionFrames

\* Command::from_frame on each of the request frames.
Decoded == [frame \in RequestFrames |-> from_frame(frame)]

(***************************************************************************)
(* Handler::run over decoded frames (server.rs, cmd/mod.rs, cmd/ping.rs).  *)
(***************************************************************************)
\* "PONG" written as a Bulk frame.
PingReplyAlwaysPong(msg) == FrameSimple("PONG")

\* The response of Ping::execute.
PingReply(msg) == IF IsSome(msg) THEN FrameBulk(Unwrap(msg)) ELSE FrameSimple("PONG")

\* Ping::execute: the reply is written, the store is not touched.
CmdPing(c, msg) ==
    /\ handler[c].pc = "idle"
    /\ handler' = handler
    /\ last' = Ev("ping", "", IF IsSome(msg) THEN Unwrap(msg) ELSE <<>>, None, <<>>,
                  Some(PingReply(msg)))
    /\ UNCHANGED <<entries, expirations, shutdown, permit, now, reaper, guard, wire, listener, mutex>>

\* "ERR unknown command ".
TextErrUnknown ==
    <<69, 82, 82, 32, 117, 110, 107, 110, 111, 119, 110, 32,
      99, 111, 109, 109, 97, 110, 100, 32>>

\* The reply without the "ERR " in front.
UnknownReplyNoPrefix(name) == FrameError(SubSeq(TextErrUnknown, 5, Len(TextErrUnknown)) \o name)

\* Command::execute, Unknown: the Error frame written.
UnknownReply(name) == FrameError(TextErrUnknown \o name)

\* Command::execute, Unknown: the reply is written and Ok(()) returned.
CmdUnknown(c, name) ==
    /\ handler[c].pc = "idle"
    /\ handler' = handler
    /\ last' = Ev("unknown", "", name, None, <<>>, Some(UnknownReply(name)))
    /\ UNCHANGED <<entries, expirations, shutdown, permit, now, reaper, guard, wire, listener, mutex>>

\* Handler::run when Command::from_frame returns Err: `?` returns from the
\* loop, nothing is written and the connection is dropped.
Reject(c) ==
    /\ handler[c].pc = "idle"
    /\ handler' = [handler EXCEPT ![c] = [Idle EXCEPT !.pc = "closed"]]
    /\ last' = EvPlain("reject")
    /\ UNCHANGED <<entries, expirations, shutdown, permit, now, reaper, guard, wire, listener, mutex>>

\* Command::from_frame, then Command::execute, in Handler::run.
Dispatch(c, frame) ==
    LET cmd == Decoded[frame]
    IN  IF ~cmd.ok THEN Reject(c)
        ELSE CASE cmd.val.tag = "Ping" -> CmdPing(c, cmd.val.msg)
               [] cmd.val.tag = "Set" ->
                      CmdSet(c, KeyOf(cmd.val.key), cmd.val.value, cmd.val.expire)
               [] cmd.val.tag = "Get" -> CmdGet(c, KeyOf(cmd.val.key))
               [] cmd.val.tag = "RPush" ->
                      CmdRPush(c, KeyOf(cmd.val.list_key), cmd.val.data)
               [] cmd.val.tag = "Unknown" -> CmdUnknown(c, cmd.val.name)

\* One pass of the loop of Handler::run on a frame read_frame returned.
HandlerRun(c, frame) ==
    /\ handler[c].pc = "idle"
    /\ request' = [conn |-> c, frame |-> frame]
    /\ Dispatch(c, frame)

\* Handlers fed with decoded frames.  The background task is left out: a
\* handler's pass over a frame does not depend on it.
NextFrame ==
    \/ \E c \in Conns, frame \in SessionFrames : HandlerRun(c, frame)
    \/ \E c \in Conns : SetNotify(c)
    \/ \E c \in Conns : RPushSet(c)

SpecFrame == Init /\ [][NextFrame]_vars

\* Handlers fed with the frames of a session and with every SET and every
\* malformed request, against the store the earlier requests have left.
NextRequests ==
    \/ \E c \in Conns, frame \in SessionFrames \cup SetRequests \cup OtherRequests :
           HandlerRun(c, frame)
    \/ \E c \in Conns : SetNotify(c)
    \/ \E c \in Conns : RPushSet(c)

SpecRequests == Init /\ [][NextRequests]_vars

\* One request against a new store: the frame a connection is about to
\* read is drawn from every request frame, then handled.
InitDecode ==
    /\ entries = [k \in Keys |-> None]
    /\ expirations = {}
    /\ shutdown = FALSE
    /\ permit = FALSE
    /\ now = 0
    /\ reaper = [pc |-> "check", when |-> None]
    /\ guard = "alive"
    /\ handler = [c \in Conns |-> Idle]
    /\ last = EvPlain("new")
    /\ listener = Listening
    /\ mutex = {}
    /\ request \in [conn : Conns, frame : RequestFrames]
    /\ NoTraffic

NextDecode ==
    \/ /\ last.op = "new"
       /\ HandlerRun(request.conn, request.frame)
    \/ \E c \in Conns : SetNotify(c)
    \/ \E c \in Conns : RPushSet(c)

SpecDecode == InitDecode /\ [][NextDecode]_vars

(***************************************************************************)
(* The wire format: Connection::write_frame (connection.rs) and            *)
(* Frame::check / Frame::parse (frame.rs) over a Cursor, which is a byte   *)
(* string and a position in it.                                            *)
(***************************************************************************)
CRLF == <<13, 10>>

\* itoa::Buffer::format: the decimal digits of a u64.
RECURSIVE itoa(_)
itoa(n) == IF n < 10 THEN <<48 + n>> ELSE itoa(n \div 10) \o <<48 + (n % 10)>>

\* Connection::write_decimal that leaves out the line end.
write_decimal_no_crlf(val) == itoa(val)

\* Connection::write_decimal.
write_decimal(val) == itoa(val) \o CRLF

\* What a write leaves in the BufWriter, or the panic of the writing task.
Written(bytes) == [panic |-> FALSE, bytes |-> bytes]
WritePanic == [panic |-> TRUE, bytes |-> <<>>]

\* Connection::write_val: a frame literal; `unreachable!()` for an Array.
write_val(frame) ==
    CASE frame.tag = "Simple" -> Written(<<43>> \o StringIntoBytes(frame.val) \o CRLF)
      [] frame.tag = "Error" -> Written(<<45>> \o StringIntoBytes(frame.val) \o CRLF)
      [] frame.tag = "Integer" -> Written(<<58>> \o write_decimal(frame.val))
      [] frame.tag = "Null" -> Written(<<36, 45, 49>> \o CRLF)
      [] frame.tag = "Bulk" ->
             Written(<<36>> \o write_decimal(Len(frame.val)) \o frame.val \o CRLF)
      [] frame.tag = "Array" -> WritePanic

\* The loop of write_frame over the elements of an Array.
RECURSIVE WriteVals(_)
WriteVals(frames) ==
    IF frames = <<>> THEN Written(<<>>)
    ELSE LET first == write_val(Head(frames))
             rest == WriteVals(Tail(frames))
         IN  IF first.panic \/ rest.panic THEN WritePanic
             ELSE Written(first.bytes \o rest.bytes)

\* Connection::write_frame: the bytes flushed to the socket.  A panic
\* unwinds before the flush, so nothing of the frame is sent.
write_frame(frame) ==
    IF frame.tag = "Array"
    THEN LET vals == WriteVals(frame.val)
         IN  IF vals.panic THEN WritePanic
             ELSE Written(<<42>> \o write_decimal(Len(frame.val)) \o vals.bytes)
    ELSE write_val(frame)

\* The outcome of a read on the Cursor: "Ok" with a value, the frame
\* errors "Incomplete" and "Other", or "Panic"; and the position reached.
Read(res, pos, val) == [res |-> res, pos |-> pos, val |-> val]

\* get_u8 and peek_u8.
get_u8(buf, pos) ==
    IF pos >= Len(buf) THEN Read("Incomplete", pos, 0) ELSE Read("Ok", pos + 1, buf[pos + 1])
peek_u8(buf, pos) ==
    IF pos >= Len(buf) THEN Read("Incomplete", pos, 0) ELSE Read("Ok", pos, buf[pos + 1])

\* skip: Incomplete only when nothing is left; Buf::advance panics when
\* fewer than n bytes are left.
skip(buf, pos, n) ==
    IF pos >= Len(buf) THEN Read("Incomplete", pos, 0)
    ELSE IF pos + n > Len(buf) THEN Read("Panic", pos, 0)
    ELSE Read("Ok", pos + n, 0)

\* get_line: the bytes up to the next CR LF, the position behind it.
get_line(buf, pos) ==
    LET ends == {i \in (pos + 1)..(Len(buf) - 1) : buf[i] = 13 /\ buf[i + 1] = 10}
    IN  IF ends = {} THEN Read("Incomplete", pos, <<>>)
        ELSE LET end == CHOOSE i \in ends : \A j \in ends : i <= j
             IN  Read("Ok", end + 1, SubSeq(buf, pos + 1, end - 1))

\* get_decimal.
get_decimal(buf, pos) ==
    LET line == get_line(buf, pos)
    IN  IF line.res /= "Ok" THEN Read(line.res, line.pos, 0)
        ELSE LET n == atoi(line.val)
             IN  IF IsSome(n) THEN Read("Ok", line.pos, Unwrap(n))
                 ELSE Read("Other", line.pos, 0)

RECURSIVE check(_, _), CheckElems(_, _, _)

\* `for _ in 0..len { Frame::check(src)?; }`
CheckElems(buf, pos, n) ==
    IF n = 0 THEN Read("Ok", pos, 0)
    ELSE LET c == check(buf, pos)
         IN  IF c.res /= "Ok" THEN c ELSE CheckElems(buf, c.pos, n - 1)

\* Frame::check: can a whole frame be decoded from the position on?
check(buf, pos) ==
    LET t == get_u8(buf, pos)
    IN  IF t.res /= "Ok" THEN t
        ELSE CASE t.val \in {43, 45} ->
                      LET line == get_line(buf, t.pos) IN Read(line.res, line.pos, 0)
               [] t.val = 58 -> get_decimal(buf, t.pos)
               [] t.val \in {36, 42} ->
                      LET p == peek_u8(buf, t.pos)
                      IN  IF p.res /= "Ok" THEN p
                          ELSE IF p.val = 45 THEN skip(buf, t.pos, 4)
                          ELSE LET len == get_decimal(buf, t.pos)
                               IN  IF len.res /= "Ok" THEN len
                                   ELSE IF t.val = 36 THEN skip(buf, len.pos, len.val + 2)
                                   ELSE CheckElems(buf, len.pos, len.val)
               [] OTHER -> Read("Other", t.pos, 0)

\* String::from_utf8(line) of Frame::parse, wrapped by Simple or Error.
ParseLine(buf, pos, tag) ==
    LET line == get_line(buf, pos)
    IN  IF line.res /= "Ok" THEN Read(line.res, line.pos, 0)
        ELSE LET string == from_utf8(line.val)
             IN  IF string.ok THEN Read("Ok", line.pos, [tag |-> tag, val |-> string.str])
                 ELSE Read("Other", line.pos, 0)

\* The null marker read as any line at all.
ParseNullAnyLine(buf, pos) ==
    LET line == get_line(buf, pos)
    IN  IF line.res /= "Ok" THEN Read(line.res, line.pos, 0) ELSE Read("Ok", line.pos, FrameNull)

\* `$-1\r\n` and `*-1\r\n` in Frame::parse.
ParseNull(buf, pos) ==
    LET line == get_line(buf, pos)
    IN  IF line.res /= "Ok" THEN Read(line.res, line.pos, 0)
        ELSE IF line.val /= <<45, 49>> THEN Read("Other", line.pos, 0)
        ELSE Read("Ok", line.pos, FrameNull)

RECURSIVE parse(_, _), ParseElems(_, _, _, _)

\* `for _ in 0..len { out_vec.push(Frame::parse(src)?); }`
ParseElems(buf, pos, n, out_vec) ==
    IF n = 0 THEN Read("Ok", pos, FrameArray(out_vec))
    ELSE LET f == parse(buf, pos)
         IN  IF f.res /= "Ok" THEN f ELSE ParseElems(buf, f.pos, n - 1, Append(out_vec, f.val))

\* Frame::parse.
parse(buf, pos) ==
    LET t == get_u8(buf, pos)
    IN  IF t.res /= "Ok" THEN t
        ELSE CASE t.val = 43 -> ParseLine(buf, t.pos, "Simple")
               [] t.val = 45 -> ParseLine(buf, t.pos, "Error")
               [] t.val = 58 ->
                      LET number == get_decimal(buf, t.pos)
                      IN  IF number.res /= "Ok" THEN number
                          ELSE Read("Ok", number.pos, FrameInteger(number.val))
               [] t.val \in {36, 42} ->
                      LET p == peek_u8(buf, t.pos)
                      IN  IF p.res /= "Ok" THEN p
                          ELSE IF p.val = 45 THEN ParseNull(buf, t.pos)
                          ELSE LET len == get_decimal(buf, t.pos)
                               IN  IF len.res /= "Ok" THEN len
                                   ELSE IF t.val = 42
                                   THEN ParseElems(buf, len.pos, len.val, <<>>)
                                   ELSE IF Len(buf) - len.pos < len.val + 2
                                   THEN Read("Incomplete", len.pos, 0)
                                   ELSE LET data == SubSeq(buf, len.pos + 1, len.pos + len.val)
                                            s == skip(buf, len.pos, len.val + 2)
                                        IN  IF s.res /= "Ok" THEN s
                                            ELSE Read("Ok", s.pos, FrameBulk(data))
               [] OTHER -> Read("Panic", t.pos, 0)

\* The result of Connection::parse_frame and the buffer it leaves:
\* "Some" frame, "None" (more bytes are needed), the error "Incomplete"
\* or "Other" that `?` and `e.into()` return, or "Panic".
Framed(tag, frame, buf) == [tag |-> tag, frame |-> frame, buffer |-> buf]

\* Connection::parse_frame: check, then parse from position 0, then
\* buffer.advance(len) with the length check found.
parse_frame(buf) ==
    LET c == check(buf, 0)
    IN  CASE c.res = "Ok" ->
                 LET f == parse(buf, 0)
                 IN  CASE f.res = "Ok" ->
                              Framed("Some", f.val, SubSeq(buf, c.pos + 1, Len(buf)))
                       [] OTHER -> Framed(f.res, FrameNull, buf)
          [] c.res = "Incomplete" -> Framed("None", FrameNull, buf)
          [] OTHER -> Framed(c.res, FrameNull, buf)

(***************************************************************************)
(* A connection read by Connection::read_frame while its peer writes frames *)
(* with Connection::write_frame.  peer holds the frames the peer writes,   *)
(* how many it wrote and whether it is "open", "closed" or stopped by a     *)
(* "panic"; socket holds the bytes sent and not yet read, buffer is        *)
(* Connection.buffer, reader the position of read_frame, received the      *)
(* results read_frame returned.                                            *)
(***************************************************************************)
SomeFrame(frame) == [tag |-> "Some", frame |-> frame]
NoFrame == [tag |-> "None"]
\* why: "Incomplete" or "Other" of frame::Error, or "Reset".
ErrFrame(why) == [tag |-> "Err", why |-> why]

\* The peer writes its next frame; the flush puts its bytes on the socket.
\* A panic ends the peer's task, which drops and so closes its stream.
PeerWrite ==
    /\ peer.state = "open"
    /\ peer.written < Len(peer.frames)
    /\ LET w == write_frame(peer.frames[peer.written + 1])
       IN  IF w.panic
           THEN peer' = [peer EXCEPT !.state = "panic"] /\ socket' = socket
           ELSE peer' = [peer EXCEPT !.written = @ + 1] /\ socket' = socket \o w.bytes
    /\ UNCHANGED <<entries, expirations, shutdown, permit, now, reaper, guard, handler,
                   last, request, listener, mutex, buffer, reader, received>>

\* The peer has written every frame and closes its stream.
PeerClose ==
    /\ peer.state = "open"
    /\ peer.written = Len(peer.frames)
    /\ peer' = [peer EXCEPT !.state = "closed"]
    /\ UNCHANGED <<entries, expirations, shutdown, permit, now, reaper, guard, handler,
                   last, request, listener, mutex, socket, buffer, reader, received>>

\* read_frame calls parse_frame: a frame is returned and read_frame is
\* called again; or more bytes are needed; or the error is returned; or
\* the task panics.
ParseFrame ==
    /\ reader = "parse"
    /\ LET p == parse_frame(buffer)
       IN  /\ buffer' = p.buffer
           /\ CASE p.tag = "Some" ->
                       reader' = "parse" /\ received' = Append(received, SomeFrame(p.frame))
                [] p.tag = "None" -> reader' = "read" /\ received' = received
                [] p.tag \in {"Incomplete", "Other"} ->
                       reader' = "done" /\ received' = Append(received, ErrFrame(p.tag))
                [] p.tag = "Panic" -> reader' = "panic" /\ received' = received
    /\ UNCHANGED <<entries, expirations, shutdown, permit, now, reaper, guard, handler,
                   last, request, listener, mutex, peer, socket>>

\* stream.read_buf returns n > 0 of the bytes sent.
ReadBuf(n) ==
    /\ reader = "read"
    /\ n \in 1..Len(socket)
    /\ buffer' = buffer \o SubSeq(socket, 1, n)
    /\ socket' = SubSeq(socket, n + 1, Len(socket))
    /\ reader' = "parse"
    /\ UNCHANGED <<entries, expirations, shutdown, permit, now, reaper, guard, handler,
                   last, request, listener, mutex, peer, received>>

\* The end of the stream taken for a clean shutdown whatever is buffered.
ReadEofAlwaysNone ==
    /\ reader = "read"
    /\ socket = <<>>
    /\ peer.state /= "open"
    /\ received' = Append(received, NoFrame)
    /\ reader' = "done"
    /\ UNCHANGED <<entries, expirations, shutdown, permit, now, reaper, guard, handler,
                   last, request, listener, mutex, peer, socket, buffer>>

\* stream.read_buf returns 0: the stream has ended.
ReadEof ==
    /\ reader = "read"
    /\ socket = <<>>
    /\ peer.state /= "open"
    /\ received' = Append(received, IF buffer = <<>> THEN NoFrame ELSE ErrFrame("Reset"))
    /\ reader' = "done"
    /\ UNCHANGED <<entries, expirations, shutdown, permit, now, reaper, guard, handler,
                   last, request, listener, mutex, peer, socket, buffer>>

\* Texts and payloads of the frames written.
TextOK == <<79, 75>>
TextCRLF == <<97, 13, 10, 98>>
BytesV1 == <<118, 49>>
BytesTen == <<48, 49, 50, 51, 52, 53, 54, 55, 56, 57>>

\* Frame literals: every variant but Array.
CodecLiterals ==
    {FrameSimple(s) : s \in {<<>>, TextOK, <<233>>, <<97, 13>>, TextCRLF}}
        \cup {FrameError(s) : s \in {<<>>, TextErrUnknown, TextCRLF}}
        \cup {FrameInteger(n) : n \in {0, 7, 10, 120}}
        \cup {FrameBulk(b) : b \in {<<>>, BytesV1, CRLF, <<255>>, BytesTen}}
        \cup {FrameNull}

\* Frames of every shape: literals, and arrays that are empty, hold Null,
\* hold literals of several variants, or hold arrays.
CodecValues ==
    CodecLiterals
        \cup {FrameArray(l) : l \in {<<>>, <<FrameNull>>,
                  <<FrameBulk(BytesV1), FrameNull, FrameInteger(7)>>,
                  <<FrameSimple(TextOK), FrameError(<<>>), FrameBulk(<<>>)>>,
                  <<FrameSimple(TextCRLF)>>,
                  <<FrameArray(<<>>)>>,
                  <<FrameBulk(BytesV1), FrameArray(<<FrameInteger(7)>>)>>}}

\* The frames of the longer sessions, and the longest session.
ConnFrames ==
    {FrameSimple(TextOK), FrameBulk(BytesV1), FrameNull,
     FrameArray(<<FrameBulk(BytesV1), FrameInteger(7)>>)}
MaxFrames == 2

\* What the peer writes before it closes: one frame of any shape, or up
\* to MaxFrames of ConnFrames.
Sessions ==
    {<<v>> : v \in CodecValues} \cup UNION {[1..n -> ConnFrames] : n \in 0..MaxFrames}

InitConn ==
    /\ entries = [k \in Keys |-> None]
    /\ expirations = {}
    /\ shutdown = FALSE
    /\ permit = FALSE
    /\ now = 0
    /\ reaper = [pc |-> "check", when |-> None]
    /\ guard = "alive"
    /\ handler = [c \in Conns |-> Idle]
    /\ last = EvPlain("new")
    /\ listener = Listening
    /\ mutex = {}
    /\ request = NoRequest
    /\ peer \in [frames : Sessions, written : {0}, state : {"open"}]
    /\ socket = <<>>
    /\ buffer = <<>>
    /\ reader = "parse"
    /\ received = <<>>

NextConn ==
    \/ PeerWrite
    \/ PeerClose
    \/ ParseFrame
    \/ \E n \in 1..Len(socket) : ReadBuf(n)
    \/ ReadEof

SpecConn == InitConn /\ [][NextConn]_vars

(***************************************************************************)
(* A connection whose peer is any TCP client: it sends bytes of its own    *)
(* choice, whole frames or not, well-formed or not, and closes.            *)
(***************************************************************************)
\* The byte strings sent: "", "+O", "+OK\r\n", "+OK\r\n+O", "$-1\r\n",
\* "*-1\r\n", "$-1ab", "$-12\r\n", "$2\r\nv", "$2\r\nv1XY",
\* "$2\r\nv1\r\n:7\r\n", "!x\r\n", ":x\r\n", "+" 0xFF "\r\n", "*1\r\n",
\* "*2\r\n$-1\r\n:7\r\n+OK\r\n", "*1\r\n!x\r\n".
RawWindows ==
    {<<>>,
     <<43, 79>>,
     <<43, 79, 75, 13, 10>>,
     <<43, 79, 75, 13, 10, 43, 79>>,
     <<36, 45, 49, 13, 10>>,
     <<42, 45, 49, 13, 10>>,
     <<36, 45, 49, 97, 98>>,
     <<36, 45, 49, 50, 13, 10>>,
     <<36, 50, 13, 10, 118>>,
     <<36, 50, 13, 10, 118, 49, 88, 89>>,
     <<36, 50, 13, 10, 118, 49, 13, 10, 58, 55, 13, 10>>,
     <<33, 120, 13, 10>>,
     <<58, 120, 13, 10>>,
     <<43, 255, 13, 10>>,
     <<42, 49, 13, 10>>,
     <<42, 50, 13, 10, 36, 45, 49, 13, 10, 58, 55, 13, 10, 43, 79, 75, 13, 10>>,
     <<42, 49, 13, 10, 33, 120, 13, 10>>}

\* The client sends its bytes and closes its end.
PeerSend(bytes) ==
    /\ peer.state = "open"
    /\ peer.frames = <<>>
    /\ socket' = bytes
    /\ peer' = [peer EXCEPT !.state = "closed"]
    /\ UNCHANGED <<entries, expirations, shutdown, permit, now, reaper, guard, handler,
                   last, request, listener, mutex, buffer, reader, received>>

NextRaw ==
    \/ \E bytes \in RawWindows : PeerSend(bytes)
    \/ ParseFrame
    \/ \E n \in 1..Len(socket) : ReadBuf(n)
    \/ ReadEof

SpecRaw == Init /\ [][NextRaw]_vars

(***************************************************************************)
(* Handler::run on a connection: read_frame, Command::from_frame and       *)
(* Command::execute in a loop, against a client that writes its requests   *)
(* without waiting for the replies.  request.n counts the frames the loop  *)
(* has taken from read_frame; the reply of a step is last.reply.           *)
(***************************************************************************)
\* The connection served.
Served == "c1"

\* The requests the client sends: PING, GET k1, RPUSH k1 a 1, FOO, and a
\* bare "PING" that is no Array.
ServeFrames ==
    {FrameArray(<<Bulk(TextPing)>>),
     FrameArray(<<Bulk(TextGet), Bulk(KeyText[KeySeq[1]])>>),
     FrameArray(<<Bulk(TextRPush)>> \o PlainArgs.rpush),
     FrameArray(<<Bulk(to_uppercase(TextFoo))>>),
     FrameSimple(to_uppercase(TextPing))}

InitServe ==
    /\ entries = [k \in Keys |-> None]
    /\ expirations = {}
    /\ shutdown = FALSE
    /\ permit = FALSE
    /\ now = 0
    /\ reaper = [pc |-> "check", when |-> None]
    /\ guard = "alive"
    /\ handler = [c \in Conns |-> Idle]
    /\ last = EvPlain("new")
    /\ listener = Listening
    /\ mutex = {}
    /\ request = [conn |-> Served, frame |-> FrameNull, n |-> 0]
    /\ peer \in [frames : UNION {[1..n -> ServeFrames] : n \in 0..MaxFrames},
                 written : {0}, state : {"open"}]
    /\ socket = <<>>
    /\ buffer = <<>>
    /\ reader = "parse"
    /\ received = <<>>

\* A loop that calls read_frame whether or not the frame before has been
\* executed.
ServeReadAhead ==
    \/ ParseFrame
    \/ \E n \in 1..Len(socket) : ReadBuf(n)
    \/ ReadEof

\* `self.connection.read_frame().await?`: the loop is inside read_frame
\* only when the command of every earlier frame has returned.
ServeRead ==
    /\ handler[Served].pc = "idle"
    /\ request.n = Len(received)
    /\ \/ ParseFrame
       \/ \E n \in 1..Len(socket) : ReadBuf(n)
       \/ ReadEof

\* read_frame has returned Some(frame): from_frame and execute.
ServeExecute ==
    /\ handler[Served].pc = "idle"
    /\ request.n < Len(received)
    /\ received[request.n + 1].tag = "Some"
    /\ request' = [conn |-> Served, frame |-> received[request.n + 1].frame,
                   n |-> request.n + 1]
    /\ Dispatch(Served, received[request.n + 1].frame)

NextServe ==
    \/ PeerWrite
    \/ PeerClose
    \/ ServeRead
    \/ ServeExecute
    \/ RPushSet(Served)

SpecServe == InitServe /\ [][NextServe]_vars

(***************************************************************************)
(* Listener::run and Listener::accept (server.rs).  A handler task is one  *)
(* of listener.tasks; what it does with its connection is Handler::run.    *)
(***************************************************************************)
\* UNCHANGED for the steps of the listener.
ListenerFrame ==
    UNCHANGED <<entries, expirations, shutdown, permit, now, reaper, guard, handler,
                request, wire, mutex>>

\* acquire_owned that returns without a permit when none is free.
AcquireNoWait ==
    /\ listener.pc = "acquire"
    /\ listener' = [listener EXCEPT !.pc = "accept", !.held = listener.free > 0,
                       !.free = IF @ > 0 THEN @ - 1 ELSE @, !.sleep_time = 1, !.failed = 0]
    /\ last' = EvPlain("acquire")
    /\ ListenerFrame

\* `limit_connections.clone().acquire_owned().await`: waits for a free
\* permit and takes it; then accept() is entered with sleep_time = 1.
Acquire ==
    /\ listener.pc = "acquire"
    /\ listener.free > 0
    /\ listener' = [listener EXCEPT !.pc = "accept", !.held = TRUE, !.free = @ - 1,
                       !.sleep_time = 1, !.failed = 0]
    /\ last' = EvPlain("acquire")
    /\ ListenerFrame

\* listener.accept() returns Ok: accept returns the socket, the Handler
\* is built and its task spawned; the permit moves into the task.
AcceptOk ==
    /\ listener.pc = "accept"
    /\ listener' = [listener EXCEPT !.pc = "acquire", !.held = FALSE, !.tasks = @ + 1]
    /\ last' = EvPlain("accept_ok")
    /\ ListenerFrame

\* listener.accept() returns Err: with sleep_time > 64 accept returns the
\* error, `?` leaves Listener::run and the permit is dropped; otherwise
\* the task sleeps for sleep_time seconds.
AcceptErr ==
    /\ listener.pc = "accept"
    /\ IF listener.sleep_time > 64
       THEN listener' = [listener EXCEPT !.pc = "failed", !.failed = @ + 1,
                            !.held = FALSE, !.free = @ + 1]
       ELSE listener' = [listener EXCEPT !.pc = "sleep", !.failed = @ + 1]
    /\ last' = EvPlain("accept_err")
    /\ ListenerFrame

\* time::sleep is over: sleep_time *= 2 and the next attempt.
AcceptRetry ==
    /\ listener.pc = "sleep"
    /\ listener' = [listener EXCEPT !.pc = "accept", !.sleep_time = @ * 2]
    /\ last' = EvPlain("accept_retry")
    /\ ListenerFrame

\* A handler task that keeps its permit when handler.run() returned Err.
TaskEndLeaks(how) ==
    /\ listener.tasks > 0
    /\ listener' = [listener EXCEPT !.tasks = @ - 1,
                                    !.free = IF how = "task_err" THEN @ ELSE @ + 1]
    /\ last' = EvPlain(how)
    /\ ListenerFrame

\* A handler task completes: handler.run() returned Ok ("task_ok") or Err
\* ("task_err"), then drop(permit); or it panicked ("task_panic") and the
\* runtime dropped the future and with it the permit.
TaskEnd(how) ==
    /\ listener.tasks > 0
    /\ listener' = [listener EXCEPT !.tasks = @ - 1, !.free = @ + 1]
    /\ last' = EvPlain(how)
    /\ ListenerFrame

NextListener ==
    \/ Acquire
    \/ AcceptOk
    \/ AcceptErr
    \/ AcceptRetry
    \/ \E how \in {"task_ok", "task_err", "task_panic"} : TaskEnd(how)

SpecListener == Init /\ [][NextListener]_vars

(***************************************************************************)
(* The Mutex of Shared.state, step by step (db.rs).  Above, a critical     *)
(* section is one step; here each Db function takes the mutex in one step  *)
(* and runs its body and drops the guard in the next, so that the tasks    *)
(* meet at the mutex.                                                      *)
(***************************************************************************)
\* lock() that returns a guard although another task holds one.
LockNoWait(task) == mutex' = mutex \cup {task}

\* self.state.lock().unwrap(): returns once no other guard is alive.
Lock(task) ==
    /\ mutex = {}
    /\ mutex' = {task}

\* The MutexGuard is dropped: drop(state), or the end of the function.
Unlock(task) ==
    /\ task \in mutex
    /\ mutex' = mutex \ {task}

\* A handler inside Db::set, holding the arguments of the call.
InSet(key, value, expire) ==
    [pc |-> "set_lock", key |-> key, items |-> <<>>, value |-> value, expire |-> expire]

\* Db::get, first line: the mutex is taken.
GetLock(c, key) ==
    /\ handler[c].pc = "idle"
    /\ Lock(c)
    /\ handler' = [handler EXCEPT ![c] = [Idle EXCEPT !.pc = "get_lock", !.key = key]]
    /\ last' = EvPlain("lock")
    /\ UNCHANGED <<entries, expirations, shutdown, permit, now, reaper, guard, request, wire,
                   listener>>

\* The rest of Db::get and of Get::execute: the entry is read, the guard is
\* dropped on return, then the reply is written.
GetUnlock(c) ==
    /\ handler[c].pc = "get_lock"
    /\ Unlock(c)
    /\ LET key == handler[c].key
           res == GetResult(DbGet(entries, key))
       IN  IF res.ok
           THEN /\ handler' = [handler EXCEPT ![c] = Idle]
                /\ last' = Ev("get", key, <<>>, None, <<>>, Some(res.frame))
           ELSE /\ handler' = [handler EXCEPT ![c] = [Idle EXCEPT !.pc = "closed"]]
                /\ last' = Ev("get", key, <<>>, None, <<>>, None)
    /\ UNCHANGED <<entries, expirations, shutdown, permit, now, reaper, guard, request, wire,
                   listener>>

\* Db::set, first line: the mutex is taken.
SetLock(c, key, value, expire) ==
    /\ handler[c].pc = "idle"
    /\ Lock(c)
    /\ handler' = [handler EXCEPT ![c] = InSet(key, value, expire)]
    /\ last' = EvPlain("lock")
    /\ UNCHANGED <<entries, expirations, shutdown, permit, now, reaper, guard, request, wire,
                   listener>>

\* Db::set from Instant::now() to drop(state); without a notification due
\* Set::execute writes the reply.
SetUnlock(c) ==
    /\ handler[c].pc = "set_lock"
    /\ Unlock(c)
    /\ LET h == handler[c]
           r == DbSet(entries, expirations, h.key, DataBytes(h.value), h.expire, now)
       IN  /\ entries' = r.entries
           /\ expirations' = r.expirations
           /\ IF r.notify
              THEN /\ handler' = [handler EXCEPT ![c] = [Idle EXCEPT !.pc = "set_notify"]]
                   /\ last' = Ev("set", h.key, h.value, h.expire, <<>>, None)
              ELSE /\ handler' = [handler EXCEPT ![c] = Idle]
                   /\ last' = Ev("set", h.key, h.value, h.expire, <<>>,
                                 Some(FrameSimple("OK")))
    /\ UNCHANGED <<shutdown, permit, now, reaper, guard, request, wire, listener>>

\* Shared::is_shutdown: the mutex is taken.
ReaperCheckLock ==
    /\ reaper.pc = "check"
    /\ Lock("reaper")
    /\ reaper' = [reaper EXCEPT !.pc = "check_lock"]
    /\ last' = EvPlain("lock")
    /\ UNCHANGED <<entries, expirations, shutdown, permit, now, guard, handler, request, wire,
                   listener>>

\* Shared::is_shutdown: the flag is read and the temporary guard dropped.
ReaperCheckUnlock ==
    /\ reaper.pc = "check_lock"
    /\ Unlock("reaper")
    /\ reaper' = [pc |-> IF shutdown THEN "done" ELSE "purge", when |-> None]
    /\ last' = EvPlain("reaper_check")
    /\ UNCHANGED <<entries, expirations, shutdown, permit, now, guard, handler, request, wire,
                   listener>>

\* Shared::purge_expired_keys, first line: the mutex is taken.
ReaperPurgeLock ==
    /\ reaper.pc = "purge"
    /\ Lock("reaper")
    /\ reaper' = [reaper EXCEPT !.pc = "purge_lock"]
    /\ last' = EvPlain("lock")
    /\ UNCHANGED <<entries, expirations, shutdown, permit, now, guard, handler, request, wire,
                   listener>>

\* The rest of Shared::purge_expired_keys; the guard is dropped on return
\* and the task suspends on select! or on notified().
ReaperPurgeUnlock ==
    /\ reaper.pc = "purge_lock"
    /\ Unlock("reaper")
    /\ LET r == purge_expired_keys(entries, expirations, shutdown, now)
       IN  /\ entries' = r.entries
           /\ expirations' = r.expirations
           /\ reaper' = [pc |-> "sleep", when |-> r.when]
    /\ last' = EvPurge({k \in Keys : IsSome(entries[k]) /\ ~IsSome(entries'[k])})
    /\ UNCHANGED <<shutdown, permit, now, guard, handler, request, wire, listener>>

\* Db::shutdown_purge_task, first line: the mutex is taken.
ShutdownLock ==
    /\ guard = "alive"
    /\ Lock("guard")
    /\ guard' = "lock"
    /\ last' = EvPlain("lock")
    /\ UNCHANGED <<entries, expirations, shutdown, permit, now, reaper, handler, request, wire,
                   listener>>

\* state.shutdown = true, then drop(state).
ShutdownUnlock ==
    /\ guard = "lock"
    /\ Unlock("guard")
    /\ shutdown' = TRUE
    /\ guard' = "notify"
    /\ last' = EvPlain("shutdown")
    /\ UNCHANGED <<entries, expirations, permit, now, reaper, handler, request, wire, listener>>

\* Handlers that get and set, the background task, the clock and the drop
\* of the guard, each Db function in its two steps; the notify_one steps
\* and the ends of the reaper's waits are the ones above.
NextLock ==
    \/ \E c \in Conns, key \in Keys : GetLock(c, key)
    \/ \E c \in Conns : GetUnlock(c)
    \/ \E c \in Conns, key \in Keys, value \in ByteValues, expire \in Expires :
           SetLock(c, key, value, expire)
    \/ \E c \in Conns : SetUnlock(c)
    \/ \E c \in Conns : SetNotify(c)
    \/ ReaperCheckLock
    \/ ReaperCheckUnlock
    \/ ReaperPurgeLock
    \/ ReaperPurgeUnlock
    \/ ReaperTimer
    \/ ReaperNotified
    \/ ShutdownLock
    \/ ShutdownUnlock
    \/ ShutdownNotify
    \/ Tick

SpecLock == Init /\ [][NextLock]_vars

(***************************************************************************)
(* Properties.                                                             *)
(***************************************************************************)
\* The deadline of the entry stored under k, if it has one.
Deadline(ents, k) == IF IsSome(ents[k]) THEN Unwrap(ents[k]).expires_at ELSE None

\* The step just taken ran the critical section of Db::set on key k.
IsDbSetOf(ev, k) == ev.op \in {"set", "rpush_set"} /\ ev.key = k

\* C1: in every reachable state <<t, k>> is a member of expirations exactly
\* when entries[k] exists with expires_at = Some(t); so no key has two
\* members.
StoreInvariant ==
    /\ \A e \in expirations : e[2] \in Keys /\ Deadline(entries, e[2]) = Some(e[1])
    /\ \A k \in Keys : IsSome(Deadline(entries, k)) =>
           <<Unwrap(Deadline(entries, k)), k>> \in expirations
    /\ \A e \in expirations, f \in expirations : e[2] = f[2] => e = f

\* A SET with a TTL has just run and both keys carry a deadline.
StoreInvariantWitness ==
    /\ last.op = "set"
    /\ IsSome(last.expire)
    /\ Cardinality(expirations) = 2

\* C2: an entry whose deadline is still in the future is changed by no step
\* but a Db::set of its key (the reaper does not remove it), and a GET of it
\* replies its bytes.
NoEarlyExpiry ==
    [][\A k \in Keys :
          (IsSome(Deadline(entries, k)) /\ now < Unwrap(Deadline(entries, k))) =>
              /\ (~IsDbSetOf(last', k) => entries'[k] = entries[k])
              /\ ((last'.op = "get" /\ last'.key = k) =>
                     last'.reply = Some(FrameBulk(Unwrap(entries[k]).data.val)))]_vars

\* A GET, after the clock has advanced and the reaper has purged and gone
\* back to sleep, of a key whose deadline is still ahead.
NoEarlyExpiryWitness ==
    /\ last.op = "get"
    /\ now >= 1
    /\ reaper.pc = "sleep"
    /\ IsSome(Deadline(entries, last.key))
    /\ Unwrap(Deadline(entries, last.key)) > now
    /\ last.reply = Some(FrameBulk(<<118, 49>>))

SleepsPastDeadline ==
    /\ reaper.pc = "sleep"
    /\ expirations /= {}
    /\ IsSome(reaper.when) => Unwrap(reaper.when) > First(expirations)[1]

\* The reaper has purged and is suspended until the earliest tracked
\* deadline at the latest.
SleepsUntilDeadline ==
    /\ reaper.pc = "sleep"
    /\ expirations /= {} =>
           (IsSome(reaper.when) /\ Unwrap(reaper.when) <= First(expirations)[1])

\* C4: when a set leaves the reaper sleeping for a deadline later than the
\* earliest one, the reaper is woken, purges again and goes back to sleep
\* until the earliest deadline at the latest, whether or not the clock
\* advances meanwhile; no interleaving loses the wake-up.
EarlierDeadlineWakeUp == SleepsPastDeadline ~> SleepsUntilDeadline

\* The reaper, sleeping for a deadline D that has not come yet, has just
\* been woken by a notification while an earlier deadline is tracked.
EarlierDeadlineWakeUpWitness ==
    /\ last.op = "reaper_notified"
    /\ IsSome(last.expire)
    /\ now < Unwrap(last.expire)
    /\ Cardinality(expirations) = 2
    /\ First(expirations)[1] < Unwrap(last.expire)
    /\ \E e \in expirations : e[1] = Unwrap(last.expire)

\* The data stored under k is an Array.
HoldsArray(ents, k) == IsSome(ents[k]) /\ Unwrap(ents[k]).data.tag = "Array"

\* C5: RPush(k, items) that finds no entry for k goes on to db.set, and
\* that db.set leaves k holding the List `items` without expiration and
\* replies Integer(len(items)).
RPushAbsentCreates ==
    [][/\ (last'.op = "rpush" /\ ~IsSome(entries[last'.key])) =>
              /\ last'.reply = None
              /\ \E c \in Conns :
                     /\ handler[c].pc = "idle"
                     /\ handler'[c] =
                            [pc |-> "rpush_set", key |-> last'.key, items |-> last'.items]
              /\ entries' = entries
       /\ last'.op = "rpush_set" =>
              \E c \in Conns :
                  /\ handler[c].pc = "rpush_set"
                  /\ handler'[c].pc = "idle"
                  /\ entries'[handler[c].key] =
                         Some(Entry(DataArray(handler[c].items), None))
                  /\ \A e \in expirations' : e[2] /= handler[c].key
                  /\ last'.reply = Some(FrameInteger(Len(handler[c].items)))]_vars

\* An RPUSH of two items has created the list.
RPushAbsentCreatesWitness ==
    /\ last.op = "rpush_set"
    /\ last.items = <<ItemA, ItemB>>
    /\ last.reply = Some(FrameInteger(2))
    /\ entries[last.key] = Some(Entry(DataArray(<<ItemA, ItemB>>), None))

\* C6 as stated: RPush(k, items) on a key holding List L leaves the store
\* holding L followed by items and replies Integer(len(L) + len(items)).
RPushAppends ==
    [][(last'.op = "rpush" /\ HoldsArray(entries, last'.key)) =>
           LET L == Unwrap(entries[last'.key]).data.val
           IN  /\ HoldsArray(entries', last'.key)
               /\ Unwrap(entries'[last'.key]).data.val = L \o last'.items
               /\ last'.reply = Some(FrameInteger(Len(L) + Len(last'.items)))]_vars

\* C7: RPush(k, items) with non-empty items on a key holding a non-List
\* value replies Integer(0), changes neither the store nor the handler
\* (the connection stays open); a reply of 0 to non-empty items occurs only
\* then.
RPushConflict ==
    [][/\ (last'.op = "rpush" /\ last'.items /= <<>>) =>
              LET conflict == IsSome(entries[last'.key]) /\ ~HoldsArray(entries, last'.key)
              IN  /\ conflict =>
                         /\ last'.reply = Some(FrameInteger(0))
                         /\ entries' = entries
                         /\ expirations' = expirations
                         /\ handler' = handler
                  /\ last'.reply = Some(FrameInteger(0)) => conflict
       /\ (last'.op = "rpush_set" /\ last'.items /= <<>>) =>
              last'.reply /= Some(FrameInteger(0))]_vars

\* An RPUSH of two items has been answered 0 and the key still holds the
\* bytes a SET stored.
RPushConflictWitness ==
    /\ last.op = "rpush"
    /\ last.items = <<ItemA, ItemB>>
    /\ last.reply = Some(FrameInteger(0))
    /\ IsSome(entries[last.key])
    /\ Unwrap(entries[last.key]).data = DataBytes(<<118, 49>>)
    /\ \A c \in Conns : handler[c].pc /= "closed"

\* The UTF-8 bytes of the strings of StringValues, written out.
Utf8Table(s) ==
    CASE s = <<>> -> <<>>
      [] s = <<97>> -> <<97>>
      [] s = <<233>> -> <<195, 169>>
      [] s = <<97, 233>> -> <<97, 195, 169>>

\* C8: Get(k) replies Null when k has no entry, Bulk(b) when k holds
\* Bytes(b), Bulk of the string's UTF-8 bytes when k holds a String and
\* Integer(n) when k holds Integer(n); the store is unchanged.
GetReplyMapping ==
    [][last'.op = "get" =>
           LET e == entries[last'.key]
               tag == IF IsSome(e) THEN Unwrap(e).data.tag ELSE "absent"
           IN  /\ tag = "absent" => last'.reply = Some(FrameNull)
               /\ tag = "Bytes" => last'.reply = Some(FrameBulk(Unwrap(e).data.val))
               /\ tag = "String" =>
                      last'.reply = Some(FrameBulk(Utf8Table(Unwrap(e).data.val)))
               /\ tag = "Integer" => last'.reply = Some(FrameInteger(Unwrap(e).data.val))
               /\ entries' = entries
               /\ expirations' = expirations]_vars

\* A GET of a key holding the String U+00E9 has replied its two bytes, and
\* the other key holds an Integer.
GetReplyMappingWitness ==
    /\ last.op = "get"
    /\ entries[last.key] = Some(Entry(DataString(<<233>>), None))
    /\ last.reply = Some(FrameBulk(<<195, 169>>))
    /\ \E k \in Keys : IsSome(entries[k]) /\ Unwrap(entries[k]).data.tag = "Integer"

\* C9 as stated: a GET of a key holding a List writes an Error frame.
GetListRepliesError ==
    [][(last'.op = "get" /\ HoldsArray(entries, last'.key)) =>
           (IsSome(last'.reply) /\ Unwrap(last'.reply).tag = "Error")]_vars

\* C10: the critical section of Set(k, v, ttl) leaves k holding Bytes(v)
\* with the expiration now + ttl (none without ttl), whatever k held; the
\* only member of expirations for k is the new deadline; the reply, at once
\* or after notify_one, is SimpleString("OK").
SetOverwrites ==
    [][/\ last'.op = "set" =>
              LET k == last'.key
                  expires_at == IF IsSome(last'.expire)
                                THEN Some(now + Unwrap(last'.expire)) ELSE None
              IN  /\ entries'[k] = Some(Entry(DataBytes(last'.value), expires_at))
                  /\ {e \in expirations' : e[2] = k} =
                         (IF IsSome(expires_at) THEN {<<Unwrap(expires_at), k>>} ELSE {})
                  /\ \/ last'.reply = Some(FrameSimple("OK"))
                     \/ /\ last'.reply = None
                        /\ \E c \in Conns :
                               handler[c].pc = "idle" /\ handler'[c].pc = "set_notify"
       /\ last'.op = "set_notify" => last'.reply = Some(FrameSimple("OK"))]_vars

\* A SET without TTL has just replaced an entry that carried a deadline:
\* the key holds the bytes, no deadline is tracked although the clock has
\* not reached the one the reaper still sleeps for.
SetOverwritesWitness ==
    /\ last.op = "set"
    /\ last.expire = None
    /\ last.reply = Some(FrameSimple("OK"))
    /\ expirations = {}
    /\ reaper.pc = "sleep"
    /\ IsSome(reaper.when)
    /\ now < Unwrap(reaper.when)

(***************************************************************************)
(* Requests as a peer means them, read off the frame without the parser.   *)
(***************************************************************************)
\* The element is a text element (Simple or Bulk) of ASCII characters.
IsText(elem) ==
    /\ elem.tag \in {"Simple", "Bulk"}
    /\ \A i \in 1..Len(elem.val) : elem.val[i] < 128

\* The element spells one of the words.
Spells(elem, words) == IsText(elem) /\ elem.val \in words

\* The spellings of the command names and of the SET options.
SpellingsOfEX == {<<69, 88>>, <<69, 120>>, <<101, 88>>, <<101, 120>>}
SpellingsOfPX == {<<80, 88>>, <<80, 120>>, <<112, 88>>, <<112, 120>>}
SpellingsOfSet ==
    {<<s, e, t>> : s \in {83, 115}, e \in {69, 101}, t \in {84, 116}}
SpellingsOfGet ==
    {<<g, e, t>> : g \in {71, 103}, e \in {69, 101}, t \in {84, 116}}
SpellingsOfPing ==
    {<<p, i, n, g>> : p \in {80, 112}, i \in {73, 105}, n \in {78, 110}, g \in {71, 103}}
SpellingsOfRPush ==
    {<<r, p, u, s, h>> : r \in {82, 114}, p \in {80, 112}, u \in {85, 117},
                         s \in {83, 115}, h \in {72, 104}}

\* The number an element carries: an Integer frame, or the digits "1", "2".
IsNumber(elem) ==
    \/ elem.tag = "Integer"
    \/ (elem.tag \in {"Simple", "Bulk"} /\ elem.val \in {<<49>>, <<50>>})
Number(elem) ==
    IF elem.tag = "Integer" THEN elem.val ELSE IF elem.val = <<49>> THEN 1 ELSE 2

\* The frame is an Array that starts with one of the words.
IsRequestOf(frame, words) ==
    /\ frame.tag = "Array"
    /\ Len(frame.val) >= 1
    /\ Spells(frame.val[1], words)

\* SET with a key of the model and a value.
IsSetRequest(frame) ==
    /\ IsRequestOf(frame, SpellingsOfSet)
    /\ Len(frame.val) >= 3
    /\ IsText(frame.val[2])
    /\ \E k \in Keys : KeyText[k] = frame.val[2].val
    /\ IsText(frame.val[3])

\* The handler reads its request in this step (SpecDecode).
Handles == last.op = "new" /\ last'.op /= "new"

\* C11: SET key value alone is stored without TTL; followed by EX (in any
\* casing) and an integer n it is stored with a TTL of n seconds, by PX and
\* n with a TTL of n milliseconds; followed by any other option token the
\* request is rejected and the store is as before.
SetOptionGrammar ==
    [][(Handles /\ IsSetRequest(request.frame)) =>
          LET args == request.frame.val
              n == Len(args)
              stored(ttl) ==
                  /\ last'.op = "set"
                  /\ KeyText[last'.key] = args[2].val
                  /\ last'.value = args[3].val
                  /\ last'.expire = ttl
                  /\ entries'[last'.key] =
                         Some(Entry(DataBytes(args[3].val),
                                    IF IsSome(ttl) THEN Some(now + Unwrap(ttl)) ELSE None))
          IN  /\ n = 3 => stored(None)
              /\ (n = 5 /\ Spells(args[4], SpellingsOfEX) /\ IsNumber(args[5])) =>
                     stored(Some(Number(args[5]) * 1000))
              /\ (n = 5 /\ Spells(args[4], SpellingsOfPX) /\ IsNumber(args[5])) =>
                     stored(Some(Number(args[5])))
              /\ (n >= 4 /\ IsText(args[4])
                        /\ args[4].val \notin SpellingsOfEX \cup SpellingsOfPX) =>
                     /\ last'.op = "reject"
                     /\ entries' = entries
                     /\ expirations' = expirations
                     /\ permit' = permit
      ]_vars

\* SET k2 v1 eX 2 has been stored with a deadline 2000 ms ahead.
SetOptionGrammarWitness ==
    /\ last.op = "set"
    /\ request.frame = SetWith(<<FrameBulk(<<101, 88>>), FrameBulk(<<50>>)>>)
    /\ entries[KeySeq[2]] = Some(Entry(DataBytes(<<118, 49>>), Some(2000)))

\* The state is the one a handler's pass over request.frame has left.
Handled == last.op \notin {"new", "set_notify", "rpush_set"}

\* SET key value followed by a token that is neither EX nor PX.
HasUnsupportedOption(frame) ==
    /\ IsSetRequest(frame)
    /\ Len(frame.val) >= 4
    /\ IsText(frame.val[4])
    /\ frame.val[4].val \notin SpellingsOfEX \cup SpellingsOfPX

\* C12: a SET frame with an unsupported option token is answered with an
\* Error frame and its connection goes on reading frames.
UnsupportedOptionReplied ==
    (Handled /\ HasUnsupportedOption(request.frame)) =>
        /\ IsSome(last.reply)
        /\ Unwrap(last.reply).tag = "Error"
        /\ handler[request.conn].pc = "idle"

\* The first element names none of the four commands.
IsUnknownRequest(frame) ==
    /\ frame.tag = "Array"
    /\ Len(frame.val) >= 1
    /\ IsText(frame.val[1])
    /\ frame.val[1].val \notin
           SpellingsOfPing \cup SpellingsOfGet \cup SpellingsOfSet \cup SpellingsOfRPush

\* An ASCII text in lower case.
AsciiLower(t) == [i \in 1..Len(t) |-> IF t[i] >= 65 /\ t[i] <= 90 THEN t[i] + 32 ELSE t[i]]

\* "unknown command " and "ERR ".
TextUnknownCommand ==
    <<117, 110, 107, 110, 111, 119, 110, 32, 99, 111, 109, 109, 97, 110, 100, 32>>
TextERR == <<69, 82, 82, 32>>

\* C13 as stated: a request whose first element N names none of ping, get,
\* set, rpush is answered with exactly Error("unknown command " + lowercase(N)).
UnknownReplyBare ==
    (Handled /\ IsUnknownRequest(request.frame)) =>
        last.reply =
            Some(FrameError(TextUnknownCommand \o AsciiLower(request.frame.val[1].val)))

\* C13 amended: the reply is exactly
\* Error("ERR unknown command " + lowercase(N)).
UnknownReplyText ==
    (Handled /\ IsUnknownRequest(request.frame)) =>
        last.reply =
            Some(FrameError(TextERR \o TextUnknownCommand
                                \o AsciiLower(request.frame.val[1].val)))

\* ["FOO"] has been answered with Error("ERR unknown command foo").
UnknownReplyTextWitness ==
    /\ last.op = "unknown"
    /\ request.frame = FrameArray(<<FrameBulk(<<70, 79, 79>>)>>)
    /\ last.reply =
           Some(FrameError(<<69, 82, 82, 32, 117, 110, 107, 110, 111, 119, 110, 32,
                             99, 111, 109, 109, 97, 110, 100, 32, 102, 111, 111>>))

\* A request of one of the four commands with the arguments it takes.
IsWellFormed(frame) ==
    \/ /\ IsRequestOf(frame, SpellingsOfPing)
       /\ Len(frame.val) = 1 \/ (Len(frame.val) = 2 /\ IsText(frame.val[2]))
    \/ /\ IsRequestOf(frame, SpellingsOfGet)
       /\ Len(frame.val) = 2
       /\ IsText(frame.val[2])
    \/ /\ IsSetRequest(frame)
       /\ \/ Len(frame.val) = 3
          \/ /\ Len(frame.val) = 5
             /\ Spells(frame.val[4], SpellingsOfEX \cup SpellingsOfPX)
             /\ IsNumber(frame.val[5])
    \/ /\ IsRequestOf(frame, SpellingsOfRPush)
       /\ Len(frame.val) >= 3
       /\ IsText(frame.val[2])
       /\ \A i \in 3..Len(frame.val) : frame.val[i].tag \in {"Simple", "Bulk", "Integer"}

\* C14: the step that answers an unknown command leaves the store as it was
\* and its handler reading frames, and the well-formed command the same
\* connection sends next is executed and answered (at once, or by the step
\* that completes it).
UnknownLeavesConnectionUsable ==
    [][/\ last'.op = "unknown" =>
              /\ entries' = entries
              /\ expirations' = expirations
              /\ handler'[request'.conn].pc = "idle"
              /\ IsSome(last'.reply)
       /\ (/\ last.op = "unknown"
           /\ request'.conn = request.conn
           /\ last'.op \notin {"set_notify", "rpush_set"}
           /\ IsWellFormed(request'.frame)) =>
              /\ last'.op \in {"ping", "get", "set", "rpush"}
              /\ \/ IsSome(last'.reply)
                 \/ handler'[request'.conn].pc \in {"set_notify", "rpush_set"}
      ]_vars

\* The other case of an ASCII letter.
FlipCase(ch) ==
    IF ch >= 65 /\ ch <= 90 THEN ch + 32
    ELSE IF ch >= 97 /\ ch <= 122 THEN ch - 32 ELSE ch

\* A text in every letter-casing.
Respellings(t) ==
    {[i \in 1..Len(t) |-> IF i \in U THEN FlipCase(t[i]) ELSE t[i]] : U \in SUBSET (1..Len(t))}

\* The frame with its first element spelled s.
Respelled(frame, s) ==
    FrameArray(<<[frame.val[1] EXCEPT !.val = s]>> \o Tail(frame.val))

\* The step recorded in `last` executed this result of Command::from_frame.
Executed(cmd) ==
    IF ~cmd.ok THEN last.op = "reject"
    ELSE CASE cmd.val.tag = "Ping" ->
                  /\ last.op = "ping"
                  /\ last.reply = Some(IF IsSome(cmd.val.msg) THEN FrameBulk(Unwrap(cmd.val.msg))
                                       ELSE FrameSimple("PONG"))
           [] cmd.val.tag = "Get" ->
                  last.op = "get" /\ KeyText[last.key] = cmd.val.key
           [] cmd.val.tag = "Set" ->
                  /\ last.op = "set"
                  /\ KeyText[last.key] = cmd.val.key
                  /\ last.value = cmd.val.value
                  /\ last.expire = cmd.val.expire
           [] cmd.val.tag = "RPush" ->
                  /\ last.op = "rpush"
                  /\ KeyText[last.key] = cmd.val.list_key
                  /\ last.items = cmd.val.data
           [] cmd.val.tag = "Unknown" ->
                  last.op = "unknown" /\ last.value = cmd.val.name

\* C15: the command executed for a request Array is the command and the
\* arguments Command::from_frame yields for the same request under every
\* other letter-casing of its first element.
NameCaseInsensitive ==
    (/\ Handled
     /\ request.frame.tag = "Array"
     /\ Len(request.frame.val) >= 1
     /\ IsText(request.frame.val[1])) =>
        \A s \in Respellings(request.frame.val[1].val) :
            Executed(from_frame(Respelled(request.frame, s)))

\* ["PiNg"] has been answered as a PING.
NameCaseInsensitiveWitness ==
    /\ last.op = "ping"
    /\ request.frame = FrameArray(<<FrameBulk(<<80, 105, 78, 103>>)>>)
    /\ last.reply = Some(FrameSimple("PONG"))

\* PING alone, or with a message.
IsPingRequest(frame) ==
    /\ IsRequestOf(frame, SpellingsOfPing)
    /\ Len(frame.val) = 1 \/ (Len(frame.val) = 2 /\ IsText(frame.val[2]))

BarePingAnswered ==
    (Handled /\ request.frame = FrameSimple(<<80, 73, 78, 71>>)) =>
        /\ last.reply = Some(FrameSimple("PONG"))
        /\ handler[request.conn].pc = "idle"

(***************************************************************************)
(* The codec and the framer (C18 - C20).                                   *)
(***************************************************************************)
\* The bytes write_frame puts on the socket for a frame.
Encoding(frame) == write_frame(frame).bytes

\* The peer writes its first frame.
FirstWrite == peer.written = 0 /\ Len(peer.frames) >= 1 /\ peer' /= peer

\* read_frame runs parse_frame on the buffer.
ParseStep == reader = "parse" /\ (reader' /= reader \/ received' /= received)

\* The first parse_frame call that finds exactly the bytes of the first
\* frame written.
ParsesFirstEncoding ==
    /\ ParseStep
    /\ received = <<>>
    /\ peer.written >= 1
    /\ buffer = Encoding(peer.frames[1])

\* The frame comes back and no byte of it is left.
FirstFrameBack == received' = <<SomeFrame(peer.frames[1])>> /\ buffer' = <<>>

HasCRLF(text) == \E i \in 1..(Len(text) - 1) : text[i] = 13 /\ text[i + 1] = 10
IsLine(frame) == frame.tag \in {"Simple", "Error"} => ~HasCRLF(frame.val)

\* A literal, or an Array of literals, whose Simple and Error texts hold
\* no CR LF.
Encodable(frame) ==
    IF frame.tag = "Array"
    THEN \A i \in 1..Len(frame.val) : frame.val[i].tag /= "Array" /\ IsLine(frame.val[i])
    ELSE IsLine(frame)

\* C18 as stated: every frame v, nested Arrays included, is written by
\* write_frame, and check followed by parse on the bytes written yields v
\* and consumes all the bytes.
RoundTripEveryValue ==
    [][/\ FirstWrite => peer'.state /= "panic"
       /\ ParsesFirstEncoding => FirstFrameBack]_vars

\* C18 amended: every frame v that is a literal or an Array of literals,
\* and whose Simple and Error texts hold no CR LF, is written by
\* write_frame, and check followed by parse on the bytes written yields v
\* and consumes all the bytes.
RoundTrip ==
    [][/\ FirstWrite /\ Encodable(peer.frames[1]) => peer'.state /= "panic"
       /\ ParsesFirstEncoding /\ Encodable(peer.frames[1]) => FirstFrameBack]_vars

\* An Array that holds a Bulk, a Null and an Integer came back whole.
RoundTripWitness ==
    /\ Len(peer.frames) = 1
    /\ peer.frames[1] = FrameArray(<<FrameBulk(BytesV1), FrameNull, FrameInteger(7)>>)
    /\ received = <<SomeFrame(peer.frames[1])>>
    /\ buffer = <<>>
    /\ socket = <<>>

IsProperPrefix(p, e) == Len(p) < Len(e) /\ p = SubSeq(e, 1, Len(p))

\* C19: when the buffer holds a proper prefix of the encoding of a frame
\* (read here in the claim's favour as an Encodable frame), check returns
\* Incomplete: parse_frame returns None and leaves the buffer alone, with
\* no error, no fault and no frame.
PrefixIncomplete ==
    [][ParseStep /\ received = <<>> /\ Len(peer.frames) >= 1
           /\ Encodable(peer.frames[1])
           /\ IsProperPrefix(buffer, Encoding(peer.frames[1]))
       => reader' = "read" /\ buffer' = buffer /\ received' = received]_vars

\* What read_frame is to return when the peer sends its frames and closes.
Expected ==
    [i \in 1..(Len(peer.frames) + 1) |->
        IF i <= Len(peer.frames) THEN SomeFrame(peer.frames[i]) ELSE NoFrame]

\* C20: when the peer sends the encodings of f1..fn (read here in the
\* claim's favour as Encodable frames) and closes, then however the bytes
\* are split into reads, read_frame returns Some(f1), ..., Some(fn) in
\* order and then None: no fault, no error, no other frame.
ChunkIndependent ==
    (\A i \in 1..Len(peer.frames) : Encodable(peer.frames[i]))
        => /\ reader /= "panic"
           /\ Len(received) <= Len(Expected)
           /\ \A i \in 1..Len(received) : received[i] = Expected[i]

(***************************************************************************)
(* The shape of a GET request (C29).                                       *)
(***************************************************************************)
\* C29: a GET request Array that has fewer or more than two entries (the
\* command name and the key) is rejected with an error: nothing is
\* executed and nothing is written.
GetArity ==
    (Handled /\ IsRequestOf(request.frame, SpellingsOfGet) /\ Len(request.frame.val) /= 2)
        => last.op = "reject" /\ ~IsSome(last.reply)

(***************************************************************************)
(* The end of the stream, errors of the framer, and check against parse    *)
(* (C21, C22, C30).                                                        *)
(***************************************************************************)
\* read_buf returns 0 and read_frame returns.
EofStep == reader = "read" /\ reader' = "done"

\* C21: when the stream yields zero bytes, read_frame returns Ok(None) if
\* and only if the buffer is empty, and the connection-reset error when
\* the buffer holds bytes; it returns no frame and leaves the buffer alone.
EndOfStream ==
    [][EofStep =>
          /\ socket = <<>>
          /\ (received' = Append(received, NoFrame)) <=> (buffer = <<>>)
          /\ buffer /= <<>> => received' = Append(received, ErrFrame("Reset"))
          /\ buffer' = buffer]_vars

\* "+OK\r\n+O" was sent: the frame was returned, and at the end of the
\* stream the reset error, with "+O" still buffered.
EndOfStreamWitness ==
    /\ reader = "done"
    /\ received = <<SomeFrame(FrameSimple(TextOK)), ErrFrame("Reset")>>
    /\ buffer = <<43, 79>>
    /\ socket = <<>>

\* C22: whatever the buffer holds, read_frame does not return the codec's
\* Incomplete condition to its caller as an error.
IncompleteNeverEscapes ==
    \A i \in 1..Len(received) : received[i] /= ErrFrame("Incomplete")

\* C30: when check succeeds on the buffer, parse from the start of the
\* same buffer returns an error, or succeeds having advanced by exactly
\* what check advanced; then parse_frame returns that frame and leaves
\* the bytes behind it, unchanged, at the front of the buffer.
CheckParseAgree ==
    [][(ParseStep /\ check(buffer, 0).res = "Ok") =>
          LET c == check(buffer, 0)
              p == parse(buffer, 0)
          IN  CASE p.res = "Ok" ->
                       /\ p.pos = c.pos
                       /\ received' = Append(received, SomeFrame(p.val))
                       /\ buffer' = SubSeq(buffer, c.pos + 1, Len(buffer))
                [] p.res \in {"Incomplete", "Other"} ->
                       /\ received' = Append(received, ErrFrame(p.res))
                       /\ buffer' = buffer
                [] OTHER -> FALSE]_vars

\* "$2\r\nv1\r\n:7\r\n" was buffered whole: Bulk "v1" was returned and
\* ":7\r\n" is what the buffer holds.
CheckParseAgreeWitness ==
    /\ received = <<SomeFrame(FrameBulk(BytesV1))>>
    /\ buffer = <<58, 55, 13, 10>>
    /\ socket = <<>>
    /\ peer.frames = <<>>

(***************************************************************************)
(* The loop of Handler::run on one connection (C23, C24).                  *)
(***************************************************************************)
\* The loop takes the next frame from read_frame and hands it to
\* from_frame and execute.
Takes == request'.n /= request.n

\* A command that was waiting for its second Db call completes.
Completes == handler[Served].pc = "rpush_set" /\ handler'[Served].pc = "idle"

\* C23: the handler takes the frames in the order read_frame returned
\* them; bytes and frames are read only when the command of every frame
\* read before has returned, its reply written; a reply is written only
\* for the frame taken last, at most once, so replies never outnumber the
\* frames read and come in request order.
RequestOrder ==
    [][/\ Takes =>
              /\ request'.n = request.n + 1
              /\ request'.n <= Len(received)
              /\ received[request'.n] = SomeFrame(request'.frame)
              /\ handler[Served].pc = "idle"
              /\ handler'[Served].pc = "rpush_set" => ~IsSome(last'.reply)
       /\ (received' /= received \/ buffer' /= buffer) =>
              /\ handler[Served].pc = "idle"
              /\ request.n = Len(received)
       /\ Completes =>
              /\ request' = request
              /\ IsSome(last'.reply)
              /\ received' = received
       /\ (~Takes /\ ~Completes) => last' = last
      ]_vars

\* PING and FOO were sent: both have been taken in that order and the
\* second has been answered.
RequestOrderWitness ==
    /\ peer.frames = <<FrameArray(<<Bulk(TextPing)>>),
                       FrameArray(<<Bulk(to_uppercase(TextFoo))>>)>>
    /\ request.n = 2
    /\ request.frame = peer.frames[2]
    /\ received = <<SomeFrame(peer.frames[1]), SomeFrame(peer.frames[2])>>
    /\ last.op = "unknown"
    /\ IsSome(last.reply)

\* The loop has returned: Ok or Err from read_frame, or Err from
\* from_frame or execute.
Returned == reader = "done" \/ handler[Served].pc = "closed"

\* C24: the loop ends only by returning; it returns Ok only when the peer
\* has closed and no byte of a frame is buffered or on the way; and once
\* it has returned, no further frame is read or executed.
ConnectionEnds ==
    [][/\ reader' /= "panic"
       /\ (reader /= "done" /\ reader' = "done"
               /\ received'[Len(received')] = NoFrame) =>
              /\ peer.state /= "open"
              /\ buffer = <<>>
              /\ socket = <<>>
       /\ Returned =>
              /\ received' = received
              /\ buffer' = buffer
              /\ request' = request
              /\ entries' = entries
              /\ last' = last
      ]_vars

(***************************************************************************)
(* The lifetime of the background task (C25).                              *)
(***************************************************************************)
\* C25: the background task does not exit while the shutdown flag is
\* false; and once the guard has set the flag and called notify_one, the
\* task exits, wherever it was (at the flag check, purging, in a timed
\* sleep, waiting for a notification) and whether or not a permit of a set
\* was stored.
ReaperLifetime ==
    /\ [](reaper.pc = "done" => shutdown)
    /\ (guard = "dropped") ~> (reaper.pc = "done")

\* The guard has set the flag and notified, and the flag check of the
\* task has ended it.
ReaperLifetimeWitness ==
    /\ reaper.pc = "done"
    /\ shutdown
    /\ guard = "dropped"
    /\ last.op = "reaper_check"

(***************************************************************************)
(* The listener: the connection cap, the permits, the accept retries       *)
(* (C26 - C28).                                                            *)
(***************************************************************************)
\* The permits out of the semaphore: one per live handler task, and the
\* one Listener::run owns between acquire_owned and spawn.
PermitsOut(l) == l.tasks + (IF l.held THEN 1 ELSE 0)

\* C26: the live handler tasks plus the permit the acceptor holds and has
\* not yet handed to a task never exceed MAX_CONNECTIONS, and the acceptor
\* is inside accept (calling it or sleeping between attempts) only while
\* it holds a permit.
ConnectionCap ==
    /\ PermitsOut(listener) <= MAX_CONNECTIONS
    /\ listener.pc \in {"accept", "sleep"} => listener.held

\* MAX_CONNECTIONS handler tasks are live and the acceptor waits for a
\* permit.
ConnectionCapWitness ==
    /\ listener.tasks = MAX_CONNECTIONS
    /\ listener.free = 0
    /\ listener.pc = "acquire"
    /\ ~listener.held

\* C27: free permits plus permits out always equal MAX_CONNECTIONS; the
\* step that completes a handler task, with Ok, with Err or by a panic,
\* returns its permit; and an acceptor that was waiting for a permit can
\* take one right after.
PermitRelease ==
    [][/\ listener.free + PermitsOut(listener) = MAX_CONNECTIONS
       /\ listener'.free + PermitsOut(listener') = MAX_CONNECTIONS
       /\ listener'.tasks < listener.tasks =>
              /\ listener'.tasks = listener.tasks - 1
              /\ listener'.free = listener.free + 1
              /\ listener.pc = "acquire" => listener'.pc = "acquire" /\ listener'.free > 0
      ]_vars

\* The pool was empty and the acceptor waiting; a handler task has ended
\* with an error and its permit is back.
PermitReleaseWitness ==
    /\ last.op = "task_err"
    /\ listener.tasks = MAX_CONNECTIONS - 1
    /\ listener.free = 1
    /\ listener.pc = "acquire"

\* C28: after the k-th consecutive failure accept sleeps 2^(k-1) seconds
\* (1 s, then doubling, 64 s at most), and at the 6th consecutive failure
\* it returns the error instead.
BackoffGivesUpAtSixth ==
    /\ listener.pc = "sleep" =>
           /\ listener.failed < 6
           /\ listener.sleep_time = 2 ^ (listener.failed - 1)
           /\ listener.sleep_time <= 64
    /\ listener.pc = "failed" => listener.failed = 6


(***************************************************************************)
(* The cursor of Parse (C31).                                              *)
(***************************************************************************)
\* The Parse left after i elements of the request Array were consumed.
Remaining(frame, i) == SubSeq(frame.val, i + 1, Len(frame.val))

\* The result r of a next_* call on the Parse `frames`: one element is gone
\* when there was one, and EndOfStream is returned exactly when there was
\* none.
OneElement(r, frames) ==
    /\ frames /= <<>> => r.rest = Tail(frames)
    /\ r.err = "EndOfStream" <=> frames = <<>>
    /\ r.err \in {"", "EndOfStream", "Other"}

\* C31: on the Parse over any request Array, at any position, next_bytes,
\* next_string and next_int each consume exactly one element when one
\* remains, also when they return a type error, and return EndOfStream
\* exactly when none remains; so a PING without message is answered PONG
\* and a SET without option is stored without TTL, while a message or an
\* option that is present and not a text is rejected with an error that is
\* not EndOfStream.
ParserCursor ==
    LET frame == request.frame
    IN  /\ frame.tag = "Array" =>
               \A i \in 0..Len(frame.val) :
                   LET frames == Remaining(frame, i)
                   IN  /\ OneElement(next_bytes(frames), frames)
                       /\ OneElement(next_string(frames), frames)
                       /\ OneElement(next_int(frames), frames)
        /\ (Handled /\ IsRequestOf(frame, SpellingsOfPing)) =>
               /\ Len(frame.val) = 1 =>
                      last.op = "ping" /\ last.reply = Some(FrameSimple("PONG"))
               /\ (Len(frame.val) >= 2 /\ frame.val[2].tag \notin {"Simple", "Bulk"}) =>
                      /\ next_bytes(Remaining(frame, 1)).err = "Other"
                      /\ last.op = "reject"
        /\ (Handled /\ IsSetRequest(frame)) =>
               /\ Len(frame.val) = 3 => last.op = "set" /\ last.expire = None
               /\ (Len(frame.val) >= 4 /\ frame.val[4].tag \notin {"Simple", "Bulk"}) =>
                      /\ next_string(Remaining(frame, 3)).err = "Other"
                      /\ last.op = "reject"

\* ["ping", Integer(1)] has been rejected: the message is present and is
\* not a text.
ParserCursorWitness ==
    /\ last.op = "reject"
    /\ request.frame = FrameArray(<<Bulk(TextPing), FrameInteger(1)>>)
    /\ next_bytes(Remaining(request.frame, 1)) = ParseErr("Other", <<>>)


(***************************************************************************)
(* The store under concurrent handlers and the reaper (C32..C39).          *)
(***************************************************************************)
\* The wait the reaper is suspended on covers the tracked deadlines: a
\* timeout not later than any of them, or no timeout and none tracked.
WaitCoversDeadlines ==
    \/ /\ IsSome(reaper.when)
       /\ \A e \in expirations : Unwrap(reaper.when) <= e[1]
    \/ /\ reaper.when = None
       /\ expirations = {}

\* C32 as stated: while shutdown is false, whenever the reaper is suspended
\* and no notification is stored, its wait covers the tracked deadlines.
WakeTargetNoPermit ==
    (~shutdown /\ reaper.pc = "sleep" /\ ~permit) => WaitCoversDeadlines

\* C32 amended: while shutdown is false, whenever the reaper is suspended,
\* no notification is stored and no Db::set stands between the release of
\* the mutex and its notify_one, the reaper's wait covers the tracked
\* deadlines.
WakeTarget ==
    (/\ ~shutdown
     /\ reaper.pc = "sleep"
     /\ ~permit
     /\ \A c \in Conns : handler[c].pc /= "set_notify") => WaitCoversDeadlines

\* After the clock has advanced the reaper has purged a key and sleeps
\* until the deadline of the other; nothing is stored or due to be notified.
WakeTargetWitness ==
    /\ last.op = "purge"
    /\ last.purged /= {}
    /\ ~permit
    /\ \A c \in Conns : handler[c].pc = "idle"
    /\ expirations /= {}
    /\ reaper.when = Some(First(expirations)[1])

\* C33: the critical section of Db::set goes on to one notify_one exactly
\* when a TTL is given and the new deadline is strictly earlier than every
\* deadline tracked when the mutex is taken (none tracked included); in
\* every other case the call ends without notifying.  The notify_one stores
\* the permit once and ends the call, and no other step of a handler
\* stores a permit.
SetNotifies ==
    [][/\ last'.op = "set" =>
              LET due == /\ IsSome(last'.expire)
                         /\ \A e \in expirations : now + Unwrap(last'.expire) < e[1]
              IN  /\ permit' = permit
                  /\ due => \E c \in Conns :
                                /\ handler[c].pc = "idle"
                                /\ handler'[c].pc = "set_notify"
                                /\ \A d \in Conns \ {c} : handler'[d] = handler[d]
                  /\ ~due => handler' = handler
       /\ last'.op = "set_notify" =>
              /\ permit'
              /\ \E c \in Conns :
                     /\ handler[c].pc = "set_notify"
                     /\ handler'[c] = Idle
                     /\ \A d \in Conns \ {c} : handler'[d] = handler[d]
       /\ last'.op = "rpush_set" => permit' = permit
       /\ (permit' /\ ~permit) => last'.op = "set_notify"]_vars

\* A SET with a TTL whose deadline equals the one already tracked for the
\* other key has ended without notifying.
SetNotifiesWitness ==
    /\ last.op = "set"
    /\ IsSome(last.expire)
    /\ last.reply = Some(FrameSimple("OK"))
    /\ Cardinality(expirations) = 2
    /\ \A e \in expirations : e[1] = now + Unwrap(last.expire)
    /\ \A c \in Conns : handler[c].pc = "idle"

\* The handler c, the reaper or the dropping guard runs the body of a Db
\* function in this step: it holds the only guard before the step and none
\* after it.
BodyOf(task) == mutex = {task} /\ mutex' = {}

\* C34: at most one task holds the mutex; every step that reads or writes
\* entries, expirations or shutdown is taken by the task that holds it; a
\* handler waiting for a frame or writing a reply, and the reaper in its
\* sleep, hold no guard; notify_one of set and of shutdown is called by a
\* task that has dropped its guard.
LockDiscipline ==
    /\ [](/\ Cardinality(mutex) <= 1
          /\ \A c \in Conns : handler[c].pc \in {"idle", "closed", "set_notify"} => c \notin mutex
          /\ reaper.pc \in {"sleep", "done"} => "reaper" \notin mutex
          /\ guard \in {"notify", "dropped"} => "guard" \notin mutex)
    /\ [][/\ last'.op \in {"get", "set"} =>
                 \E c \in Conns :
                     /\ handler[c].pc \in {"get_lock", "set_lock"}
                     /\ handler'[c] /= handler[c]
                     /\ BodyOf(c)
          /\ last'.op \in {"reaper_check", "purge"} => BodyOf("reaper")
          /\ last'.op = "shutdown" => BodyOf("guard")
          /\ (entries' /= entries \/ expirations' /= expirations \/ shutdown' /= shutdown) =>
                 last'.op \in {"set", "purge", "shutdown"}
          /\ IsSome(last'.reply) => \A c \in Conns : handler'[c] /= handler[c] => c \notin mutex'
          /\ last'.op = "set_notify" =>
                 \E c \in Conns : handler[c].pc = "set_notify" /\ c \notin mutex
          /\ last'.op = "shutdown_notify" => "guard" \notin mutex
          /\ (permit' /\ ~permit) => last'.op \in {"set_notify", "shutdown_notify"}]_vars

\* One handler holds the mutex inside Db::set while the other stands
\* between drop(state) and notify_one and the reaper sleeps.
LockDisciplineWitness ==
    /\ \E c \in Conns, d \in Conns :
           /\ handler[c].pc = "set_lock"
           /\ mutex = {c}
           /\ handler[d].pc = "set_notify"
    /\ reaper.pc = "sleep"
    /\ ~permit

\* The keys that have a member of exps with a deadline at or before clock.
DueKeys(exps, clock) == {e[2] : e \in {f \in exps : f[1] <= clock}}

\* C35: a purge pass at time `now` with shutdown false removes from entries
\* and from expirations exactly the keys whose deadline is <= now, leaves
\* every other key as it was and makes the reaper wait for the least
\* remaining deadline, or without timeout when none remains; with shutdown
\* true it removes nothing and returns None.
PurgeStep ==
    [][last'.op = "purge" =>
           IF shutdown
           THEN /\ entries' = entries
                /\ expirations' = expirations
                /\ last'.purged = {}
                /\ reaper'.when = None
           ELSE LET due == DueKeys(expirations, now)
                    left == {e \in expirations : e[1] > now}
                IN  /\ entries' = [k \in Keys |-> IF k \in due THEN None ELSE entries[k]]
                    /\ expirations' = left
                    /\ last'.purged = due
                    /\ IF left = {}
                       THEN reaper'.when = None
                       ELSE /\ IsSome(reaper'.when)
                            /\ \E e \in left : e[1] = Unwrap(reaper'.when)
                            /\ \A e \in left : Unwrap(reaper'.when) <= e[1]]_vars

\* One pass at time 1 has removed both keys: they shared the deadline 1.
PurgeStepWitness ==
    /\ last.op = "purge"
    /\ last.purged = Keys
    /\ now = 1
    /\ expirations = {}
    /\ reaper = [pc |-> "sleep", when |-> None]

\* C36: with shutdown false and the reaper scheduled fairly, a member
\* <<t, k>> of expirations whose deadline t has been reached does not stay:
\* the entry is purged (or overwritten by a set of k), whatever sets with
\* earlier, equal or later deadlines run between the reaper's check, purge
\* and wait.
EventualPurge ==
    \A k \in Keys, t \in 1..MaxTime :
        (<<t, k>> \in expirations /\ now >= t)
            ~> (<<t, k>> \notin expirations /\ (~IsSome(entries[k]) \/ Deadline(entries, k) /= Some(t)))

\* A pass has purged a key whose deadline had come while a set of another
\* handler stood between its critical section and notify_one.
EventualPurgeWitness ==
    /\ last.op = "purge"
    /\ last.purged /= {}
    /\ \A k \in last.purged : ~IsSome(entries[k]) /\ \A e \in expirations : e[2] /= k
    /\ \E c \in Conns : handler[c].pc = "set_notify"

\* C37: an RPUSH that interleaves with a SET or an RPUSH of another
\* connection on the same key acts as if the two ran one after the other:
\* the db.set of an RPUSH that found the key absent finds it still absent,
\* so it replaces no value a SET stored since the lookup and drops no
\* items another RPUSH stored since.
RPushSerializable ==
    [][last'.op = "rpush_set" => ~IsSome(entries[last'.key])]_vars

\* The requests that Command::from_frame has to refuse, read off the frame:
\* not an Array; SET or GET without key, SET without value; a key that is
\* not UTF-8 (it has one of the bytes 248..255, which no UTF-8 text has);
\* SET with an option that is neither EX nor PX, or with EX or PX and no
\* number behind it.
IsMalformed(frame) ==
    \/ frame.tag /= "Array"
    \/ /\ IsRequestOf(frame, SpellingsOfSet)
       /\ \/ Len(frame.val) < 3
          \/ frame.val[2].tag = "Bulk" /\ \E i \in 1..Len(frame.val[2].val) :
                                               frame.val[2].val[i] >= 248
          \/ HasUnsupportedOption(frame)
          \/ /\ IsSetRequest(frame)
             /\ Len(frame.val) >= 4
             /\ Spells(frame.val[4], SpellingsOfEX \cup SpellingsOfPX)
             /\ (Len(frame.val) = 4 \/ ~IsNumber(frame.val[5]))
    \/ IsRequestOf(frame, SpellingsOfGet) /\ Len(frame.val) < 2

\* C38: a request that Command::from_frame refuses leaves entries and
\* expirations as they were, stores no permit and leaves no notify_one
\* due; every malformed request is refused.
RejectedLeavesStore ==
    [][/\ (last'.op \notin {"set_notify", "rpush_set"} /\ IsMalformed(request'.frame)) =>
              last'.op = "reject"
       /\ last'.op = "reject" =>
              /\ entries' = entries
              /\ expirations' = expirations
              /\ permit' = permit
              /\ \A c \in Conns : handler'[c].pc = "set_notify" => handler[c].pc = "set_notify"]_vars

\* SET k2 v1 PX x has been refused while k2 holds the value and the
\* deadline an earlier SET gave it.
RejectedLeavesStoreWitness ==
    /\ last.op = "reject"
    /\ request.frame = SetWith(<<Bulk(TextPX), FrameBulk(<<120>>)>>)
    /\ entries[KeySeq[2]] = Some(Entry(DataBytes(<<118, 49>>), Some(2000)))
    /\ expirations = {<<2000, KeySeq[2]>>}

\* The members of exps that belong to key k.
MembersOf(exps, k) == {e \in exps : e[2] = k}

\* C39: the critical section of Db::set on key k (from SET or from RPUSH)
\* leaves the entry and the expirations members of every other key as they
\* were, and Db::get (from GET or from RPUSH's lookup) changes neither
\* entries nor expirations nor shutdown nor the permit.
SetIsLocal ==
    [][/\ last'.op \in {"set", "rpush_set"} =>
              \A k \in Keys \ {last'.key} :
                  /\ entries'[k] = entries[k]
                  /\ MembersOf(expirations', k) = MembersOf(expirations, k)
       /\ last'.op \in {"get", "rpush"} =>
              /\ entries' = entries
              /\ expirations' = expirations
              /\ shutdown' = shutdown
              /\ permit' = permit]_vars

\* A SET of k1 without TTL has replaced an entry of k1 while k2 keeps its
\* value and its deadline, the only one tracked, for which the reaper
\* sleeps.
SetIsLocalWitness ==
    /\ last.op = "set"
    /\ last.key = KeySeq[1]
    /\ last.expire = None
    /\ entries[KeySeq[2]] = Some(Entry(DataBytes(<<118, 49>>), Some(2)))
    /\ expirations = {<<2, KeySeq[2]>>}
    /\ reaper = [pc |-> "sleep", when |-> Some(2)]
    /\ now = 1

====
